---- MODULE Spec2Model ----
(***************************************************************************)
(* A model of the vaultdb storage engine: DocumentStorage (storage.py),    *)
(* the JSON vault file with its atomic rewrite, and EncryptedStorage       *)
(* (encrypted_storage.py) on top of it.                                    *)
(***************************************************************************)
EXTENDS Integers, FiniteSets, Sequences, TLC

\* ------------------------------------------------------------------ bounds
\* Number of distinct instants datetime.now() can return.
MaxTime == 2
\* Number of distinct salts generate_salt() can return.
MaxSalt == 2
\* Number of rewrites the file system lets fail in one behaviour.
MaxFaults == 1

\* ------------------------------------------------------------------ values
\* A JSON string value.
Str(v) == [t |-> "str", v |-> v]
\* A timestamp as written by datetime.isoformat().
Time(n) == [t |-> "time", at |-> n]

\* A JSON number, a JSON boolean and null (None).
Num(n) == [t |-> "num", n |-> n]
Bool(b) == [t |-> "bool", b |-> b]
Null == [t |-> "null"]

\* isinstance(x, dict): scalar values carry a type tag `t`, mappings are the
\* functions from their keys (no document of the model has a key `t`).
IsDict(x) == "t" \notin DOMAIN x
\* Arguments that are not mappings: a string, None.
NonMappings == {Str("not-a-dict"), Null}

\* Python truthiness of a field value: the empty string is falsy.
Truthy(val) == ~(val.t = "str" /\ val.v = "")

\* Identifiers a caller supplies in `_id` (the empty string is falsy).
SuppliedIds == {"", "a"}
\* Identifiers produced by str(uuid.uuid4()).
Uuids == {"u1"}
\* Values of the user field `n`.
FieldVals == {Str("x"), Str("y")}
Times == 1..MaxTime

\* Plaintext documents a caller can pass: mappings over `_id` and `n`.
Docs ==
  { d \in UNION {[S -> {Str(i) : i \in SuppliedIds} \cup FieldVals] : S \in SUBSET {"_id", "n"}} :
      /\ ("_id" \in DOMAIN d => d["_id"] \in {Str(i) : i \in SuppliedIds})
      /\ ("n" \in DOMAIN d => d["n"] \in FieldVals) }

\* Partial documents a caller passes to update(): as Docs, with a non-empty `_id`.
Partials == {d \in Docs : "_id" \in DOMAIN d => Truthy(d["_id"])}

\* dict.update(): shallow overwrite of d by the keys of u.
DictUpdate(d, u) ==
  [k \in DOMAIN d \cup DOMAIN u |-> IF k \in DOMAIN u THEN u[k] ELSE d[k]]
\* d[k] = v
DictSet(d, k, v) == [x \in DOMAIN d \cup {k} |-> IF x = k THEN v ELSE d[x]]
\* del d[k]
DictDel(d, k) == [x \in DOMAIN d \ {k} |-> d[x]]
EmptyDict == [x \in {} |-> Str("")]

\* ------------------------------------------------------------------ crypto
\* A key derivation that leaves the salt out of the key.
generate_keyIgnoringSalt(passphrase, salt) == [pass |-> passphrase, salt |-> 0]

\* generate_key(passphrase, salt): deterministic, salt-scoped.
generate_key(passphrase, salt) == [pass |-> passphrase, salt |-> salt]
\* The serialized form of a value: an object is written as the text of its
\* members, each key with its serialized value; a scalar as its literal.
RECURSIVE JsonDumps(_)
JsonDumps(v) ==
  IF IsDict(v)
  THEN [t |-> "object", members |-> [k \in DOMAIN v |-> JsonDumps(v[k])]]
  ELSE v
\* Parsing the serialized form: an object's members become a mapping again.
RECURSIVE JsonLoads(_)
JsonLoads(x) ==
  IF x.t = "object"
  THEN [k \in DOMAIN x.members |-> JsonLoads(x.members[k])]
  ELSE x
\* encrypt_document(doc, key): the serialized document in an authenticated
\* token bound to key.
encrypt_document(doc, key) == [t |-> "ct", key |-> key, pt |-> JsonDumps(doc)]
\* decrypt_document(token, key) succeeds only for a token made under key.
CanDecrypt(token, key) == token.t = "ct" /\ token.key = key
\* A decryption that hands back the serialized text without parsing it.
decrypt_documentUnparsed(token, key) == token.pt
decrypt_document(token, key) == JsonLoads(token.pt)

\* generate_salt(): the salts it can return.
Salts == 1..MaxSalt
\* The salt as `_meta.salt` holds it: base64 text.
B64(salt) == [t |-> "b64", of |-> salt]
\* base64 decoding raises on text that is not base64.
IsB64(val) == val.t = "b64"
B64Decode(val) == val.of
Passphrases == {"pw", "pw2"}

\* ------------------------------------------------------------------ state
Handles == {"h1", "h2"}
Paths == {"p1", "p2"}

VARIABLES
  files,   \* path -> content of the vault file
  temps,   \* path -> number of temporary files left in the vault's directory
  stores,  \* handle -> the store object (path, meta, data, key)
  layer,   \* which API the caller drives: "doc" or "enc"
  faults,  \* number of rewrites that have failed so far
  last     \* the last call: operation, handle, target id, error raised, value returned

vars == <<files, temps, stores, layer, faults, last>>

Absent == [kind |-> "absent"]
EmptyFile == [kind |-> "empty"]
\* A file of whitespace only: content.strip() is empty.
BlankFile == [kind |-> "blank"]
PartialFile == [kind |-> "partial"]
JsonFile(obj) == [kind |-> "json", obj |-> obj]
Closed == [open |-> FALSE]

NoId == "<none>"
NoKey == [pass |-> "<none>", salt |-> 0]
NoRet == [none |-> TRUE]
RetId(i) == [id |-> i]
RetBool(b) == [bool |-> b]
RetDoc(d) == [doc |-> d]
RetDocs(ds) == [docs |-> ds]
Call(op, h, id, err, ret, writes) ==
  [op |-> op, h |-> h, id |-> id, err |-> err, ret |-> ret, writes |-> writes]

VAULTDB_VERSION == Str("1.0.0")

\* --------------------------------------------------------- DocumentStorage
\* _initialize_meta(app_name): fresh metadata stamped with the current time.
InitializeMeta(app_name, now) ==
  LET meta == ("vault_version" :> VAULTDB_VERSION) @@ ("created_at" :> Time(now))
  IN IF app_name # "" THEN DictSet(meta, "app_name", Str(app_name)) ELSE meta

\* The outcome of an operation on a store: the new store object, the new
\* file and temporary files of its path, the error raised, the value returned,
\* the number of rewrites it started and whether the file system failed one.
Outcome(s, f, t, err, ret) ==
  [s |-> s, f |-> f, t |-> t, err |-> err, ret |-> ret, writes |-> 0, fault |-> FALSE]

\* A _load that takes the documents from the file and initializes the
\* metadata anew.
LoadReinitializingMeta(s, f, app_name, now) ==
  IF f.kind \in {"absent", "empty", "blank"}
  THEN [s |-> [s EXCEPT !.meta = InitializeMeta(app_name, now), !.data = EmptyDict],
        err |-> "none"]
  ELSE IF f.kind = "json" /\ ~IsDict(f.obj) /\ f.obj.t \in {"num", "bool", "null"}
  THEN [s |-> s, err |-> "TypeError"]
  ELSE IF /\ f.kind = "json" /\ IsDict(f.obj)
          /\ "_meta" \in DOMAIN f.obj /\ "documents" \in DOMAIN f.obj
  THEN [s |-> [s EXCEPT !.meta = InitializeMeta(app_name, now), !.data = f.obj["documents"]],
        err |-> "none"]
  ELSE [s |-> s, err |-> "StorageError"]

\* _load(app_name) of a store object s whose file holds f: the reloaded store
\* object and the error raised.
\* json.loads may return a value that is no object: `"_meta" in raw` raises
\* TypeError on a number, a boolean or None (not caught by _load) and is a
\* substring test on a string (false for the strings of the model).
Load(s, f, app_name, now) ==
  IF f.kind \in {"absent", "empty", "blank"}
  THEN [s |-> [s EXCEPT !.meta = InitializeMeta(app_name, now), !.data = EmptyDict],
        err |-> "none"]
  ELSE IF f.kind = "json" /\ ~IsDict(f.obj) /\ f.obj.t \in {"num", "bool", "null"}
  THEN [s |-> s, err |-> "TypeError"]
  ELSE IF /\ f.kind = "json" /\ IsDict(f.obj)
          /\ "_meta" \in DOMAIN f.obj /\ "documents" \in DOMAIN f.obj
  THEN [s |-> [s EXCEPT !.meta = f.obj["_meta"], !.data = f.obj["documents"]],
        err |-> "none"]
  ELSE [s |-> s, err |-> "StorageError"]

\* The ways one rewrite can go: it succeeds, or creating the temporary file,
\* json.dump into it, or os.replace raises.
Failures == {"none", "open", "dump", "replace"}

\* A rewrite that serializes the documents under empty metadata.
FileContentWithoutMeta(s) == JsonFile(("_meta" :> EmptyDict) @@ ("documents" :> s.data))

\* What _atomic_write serializes: {"_meta": dict(self.meta), "documents": self.data}.
FileContent(s) == JsonFile(("_meta" :> s.meta) @@ ("documents" :> s.data))

\* A rewrite that opens the vault path itself for writing: the file is
\* truncated before the dump, so a failure leaves it empty.
AtomicWriteTruncating(s, f, t, fail) ==
  LET o == IF fail = "none" THEN Outcome(s, FileContent(s), t, "none", NoRet)
           ELSE Outcome(s, EmptyFile, t, "StorageError", NoRet)
  IN [o EXCEPT !.writes = 1, !.fault = (fail # "none")]

\* A rewrite that dumps straight into the vault path: a failed dump leaves a
\* partially written file there.
AtomicWriteInPlace(s, f, t, fail) ==
  LET o == IF fail = "none" THEN Outcome(s, FileContent(s), t, "none", NoRet)
           ELSE Outcome(s, PartialFile, t, "StorageError", NoRet)
  IN [o EXCEPT !.writes = 1, !.fault = (fail # "none")]

\* _atomic_write(): dump to a temporary file in the same directory, then
\* os.replace it over the vault path; any exception becomes StorageError.
\* The temporary file is created with delete=False: once created it stays
\* in the directory unless os.replace moves it (t counts the ones left).
AtomicWrite(s, f, t, fail) ==
  LET o == CASE fail = "none"    -> Outcome(s, FileContent(s), t, "none", NoRet)
             [] fail = "open"    -> Outcome(s, f, t, "StorageError", NoRet)
             [] fail = "dump"    -> Outcome(s, f, t + 1, "StorageError", NoRet)
             [] fail = "replace" -> Outcome(s, f, t + 1, "StorageError", NoRet)
  IN [o EXCEPT !.writes = 1, !.fault = (fail # "none")]

\* doc.get("_id") or str(uuid.uuid4())
IdOrUuid(doc, uuid) ==
  IF "_id" \in DOMAIN doc /\ Truthy(doc["_id"]) THEN doc["_id"].v ELSE uuid

\* An insert without the duplicate test: the new record replaces the old one.
StoreInsertOverwriting(s, f, t, doc, uuid, fail) ==
  LET doc_id == IdOrUuid(doc, uuid)
      s1 == [s EXCEPT !.data = DictSet(@, doc_id, DictSet(doc, "_id", Str(doc_id)))]
      w == AtomicWrite(s1, f, t, fail)
  IN [w EXCEPT !.ret = IF w.err = "none" THEN RetId(doc_id) ELSE NoRet]

\* DocumentStorage.insert(doc)
StoreInsert(s, f, t, doc, uuid, fail) ==
  LET doc_id == IdOrUuid(doc, uuid)
  IN IF ~IsDict(doc)
     THEN Outcome(s, f, t, "InvalidDocumentError", NoRet)
     ELSE IF doc_id \in DOMAIN s.data
     THEN Outcome(s, f, t, "DuplicateIDError", NoRet)
     ELSE LET s1 == [s EXCEPT !.data = DictSet(@, doc_id, DictSet(doc, "_id", Str(doc_id)))]
              w == AtomicWrite(s1, f, t, fail)
          IN [w EXCEPT !.ret = IF w.err = "none" THEN RetId(doc_id) ELSE NoRet]

\* DocumentStorage.get(doc_id): the record, or None.
StoreGet(s, doc_id) ==
  IF doc_id \in DOMAIN s.data THEN RetDoc(s.data[doc_id]) ELSE NoRet

\* An update that replaces the record by the partial instead of merging.
StoreUpdateReplacing(s, f, t, doc_id, updates, fail) ==
  IF doc_id \notin DOMAIN s.data
  THEN Outcome(s, f, t, "none", RetBool(FALSE))
  ELSE LET s1 == [s EXCEPT !.data[doc_id] = updates]
           w == AtomicWrite(s1, f, t, fail)
       IN [w EXCEPT !.ret = IF w.err = "none" THEN RetBool(TRUE) ELSE NoRet]

\* An update that looks the id up before it validates the partial.
StoreUpdateCheckingLate(s, f, t, doc_id, updates, fail) ==
  IF doc_id \notin DOMAIN s.data
  THEN Outcome(s, f, t, "none", RetBool(FALSE))
  ELSE IF ~IsDict(updates)
  THEN Outcome(s, f, t, "InvalidDocumentError", NoRet)
  ELSE LET s1 == [s EXCEPT !.data[doc_id] = DictUpdate(@, updates)]
           w == AtomicWrite(s1, f, t, fail)
       IN [w EXCEPT !.ret = IF w.err = "none" THEN RetBool(TRUE) ELSE NoRet]

\* DocumentStorage.update(doc_id, updates)
StoreUpdate(s, f, t, doc_id, updates, fail) ==
  IF ~IsDict(updates)
  THEN Outcome(s, f, t, "InvalidDocumentError", NoRet)
  ELSE IF doc_id \notin DOMAIN s.data
  THEN Outcome(s, f, t, "none", RetBool(FALSE))
  ELSE LET s1 == [s EXCEPT !.data[doc_id] = DictUpdate(@, updates)]
           w == AtomicWrite(s1, f, t, fail)
       IN [w EXCEPT !.ret = IF w.err = "none" THEN RetBool(TRUE) ELSE NoRet]

\* A delete that drops the record from memory and never rewrites the file.
StoreDeleteWithoutWrite(s, f, t, doc_id, fail) ==
  IF doc_id \in DOMAIN s.data
  THEN Outcome([s EXCEPT !.data = DictDel(@, doc_id)], f, t, "none", RetBool(TRUE))
  ELSE Outcome(s, f, t, "none", RetBool(FALSE))

\* DocumentStorage.delete(doc_id)
StoreDelete(s, f, t, doc_id, fail) ==
  IF doc_id \in DOMAIN s.data
  THEN LET s1 == [s EXCEPT !.data = DictDel(@, doc_id)]
           w == AtomicWrite(s1, f, t, fail)
       IN [w EXCEPT !.ret = IF w.err = "none" THEN RetBool(TRUE) ELSE NoRet]
  ELSE Outcome(s, f, t, "none", RetBool(FALSE))

\* A list() that returns the in-memory records without reloading the file.
StoreListFromMemory(s, f, t, now) == Outcome(s, f, t, "none", RetDocs(s.data))

\* DocumentStorage.list(): reload from the file, then the records by map key.
StoreList(s, f, t, now) ==
  LET l == Load(s, f, "", now)
  IN IF l.err = "none"
     THEN Outcome(l.s, f, t, "none", RetDocs(l.s.data))
     ELSE Outcome(s, f, t, l.err, NoRet)

\* DocumentStorage(path, app_name): a store object bound to path, then _load.
NewStore(path) == [open |-> TRUE, path |-> path, meta |-> EmptyDict, data |-> EmptyDict, key |-> NoKey]

\* -------------------------------------------------------- EncryptedStorage
\* An insert that encrypts the caller's document before `_id` is set on it.
EncInsertOpWithoutId(s, f, t, doc, uuid, fail) ==
  LET _id == IdOrUuid(doc, uuid)
      encrypted == encrypt_document(doc, s.key)
      r == StoreInsert(s, f, t, ("_id" :> Str(_id)) @@ ("data" :> encrypted), uuid, fail)
  IN [r EXCEPT !.err = IF @ \in {"none", "DuplicateIDError"} THEN @ ELSE "CryptoError"]

\* An insert that lets every error of the store through as it is.
EncInsertOpPropagating(s, f, t, doc, uuid, fail) ==
  LET _id == IdOrUuid(doc, uuid)
      doc1 == DictSet(doc, "_id", Str(_id))
      encrypted == encrypt_document(doc1, s.key)
  IN IF ~IsDict(doc)
     THEN Outcome(s, f, t, "InvalidDocumentError", NoRet)
     ELSE StoreInsert(s, f, t, ("_id" :> Str(_id)) @@ ("data" :> encrypted), uuid, fail)

\* EncryptedStorage.insert(doc)
EncInsertOp(s, f, t, doc, uuid, fail) ==
  LET _id == IdOrUuid(doc, uuid)
      doc1 == DictSet(doc, "_id", Str(_id))
      encrypted == encrypt_document(doc1, s.key)
      r == StoreInsert(s, f, t, ("_id" :> Str(_id)) @@ ("data" :> encrypted), uuid, fail)
  IN IF ~IsDict(doc)
     THEN Outcome(s, f, t, "InvalidDocumentError", NoRet)
     ELSE [r EXCEPT !.err = IF @ \in {"none", "DuplicateIDError"} THEN @ ELSE "CryptoError"]

\* EncryptedStorage.get(doc_id): the error raised and the value returned.
EncGetOp(s, doc_id) ==
  LET raw == StoreGet(s, doc_id)
  IN IF raw = NoRet \/ raw.doc = EmptyDict
     THEN [err |-> "none", ret |-> NoRet]
     ELSE IF "data" \notin DOMAIN raw.doc
     THEN [err |-> "CryptoError", ret |-> NoRet]
     ELSE IF ~CanDecrypt(raw.doc["data"], s.key)
     THEN [err |-> "CryptoError", ret |-> NoRet]
     ELSE [err |-> "none", ret |-> RetDoc(decrypt_document(raw.doc["data"], s.key))]

\* An update that also merges the caller's plaintext fields into the raw record.
EncUpdateOpLeaking(s, f, t, doc_id, updates, fail) ==
  LET g == EncGetOp(s, doc_id)
  IN IF g.err # "none"
     THEN Outcome(s, f, t, g.err, NoRet)
     ELSE IF g.ret = NoRet \/ g.ret.doc = EmptyDict
     THEN Outcome(s, f, t, "none", RetBool(FALSE))
     ELSE LET existing == DictUpdate(g.ret.doc, updates)
              encrypted == encrypt_document(existing, s.key)
              r == StoreUpdate(s, f, t, doc_id, DictSet(updates, "data", encrypted), fail)
          IN [r EXCEPT !.err = IF @ = "none" THEN @ ELSE "CryptoError"]

\* An update that deletes the record and inserts the merged one: two rewrites.
EncUpdateOpReinserting(s, f, t, doc_id, updates, fail) ==
  LET g == EncGetOp(s, doc_id)
  IN IF ~IsDict(updates)
     THEN Outcome(s, f, t, "InvalidDocumentError", NoRet)
     ELSE IF g.err # "none"
     THEN Outcome(s, f, t, g.err, NoRet)
     ELSE IF g.ret = NoRet \/ g.ret.doc = EmptyDict
     THEN Outcome(s, f, t, "none", RetBool(FALSE))
     ELSE LET existing == DictUpdate(g.ret.doc, updates)
              encrypted == encrypt_document(existing, s.key)
              d == StoreDelete(s, f, t, doc_id, fail)
              r == StoreInsert(d.s, d.f, d.t, ("_id" :> Str(doc_id)) @@ ("data" :> encrypted),
                               doc_id, fail)
          IN IF d.err # "none" THEN [d EXCEPT !.err = "CryptoError"]
             ELSE [r EXCEPT !.err = IF @ = "none" THEN @ ELSE "CryptoError",
                            !.ret = IF r.err = "none" THEN RetBool(TRUE) ELSE NoRet,
                            !.writes = d.writes + r.writes]

\* EncryptedStorage.update(doc_id, updates)
EncUpdateOp(s, f, t, doc_id, updates, fail) ==
  LET g == EncGetOp(s, doc_id)
  IN IF ~IsDict(updates)
     THEN Outcome(s, f, t, "InvalidDocumentError", NoRet)
     ELSE IF g.err # "none"
     THEN Outcome(s, f, t, g.err, NoRet)
     ELSE IF g.ret = NoRet \/ g.ret.doc = EmptyDict
     THEN Outcome(s, f, t, "none", RetBool(FALSE))
     ELSE LET existing == DictUpdate(g.ret.doc, updates)
              encrypted == encrypt_document(existing, s.key)
              r == StoreUpdate(s, f, t, doc_id, "data" :> encrypted, fail)
          IN [r EXCEPT !.err = IF @ = "none" THEN @ ELSE "CryptoError"]

\* EncryptedStorage.delete(doc_id)
EncDeleteOp(s, f, t, doc_id, fail) == StoreDelete(s, f, t, doc_id, fail)

\* A raw record list() can decrypt.
Readable(raw, key) == "data" \in DOMAIN raw /\ CanDecrypt(raw["data"], key)

\* A list() that skips unreadable records whatever `strict` says.
EncListOpAlwaysSkipping(s, f, t, strict, now) ==
  LET l == StoreList(s, f, t, now)
  IN IF l.err # "none" THEN l
     ELSE LET raw_docs == l.ret.docs
              good == {k \in DOMAIN raw_docs : Readable(raw_docs[k], s.key)}
          IN [l EXCEPT !.ret =
                RetDocs([k \in good |-> decrypt_document(raw_docs[k]["data"], s.key)])]

\* EncryptedStorage.list(strict): the decrypted documents by map key.
EncListOp(s, f, t, strict, now) ==
  LET l == StoreList(s, f, t, now)
  IN IF l.err # "none" THEN l
     ELSE LET raw_docs == l.ret.docs
              good == {k \in DOMAIN raw_docs : Readable(raw_docs[k], s.key)}
          IN IF strict /\ good # DOMAIN raw_docs
             THEN [l EXCEPT !.err = "CryptoError", !.ret = NoRet]
             ELSE [l EXCEPT !.ret =
                     RetDocs([k \in good |-> decrypt_document(raw_docs[k]["data"], s.key)])]

\* doc.get(k): the value under k, or None.
PyGet(doc, k) == IF k \in DOMAIN doc THEN doc[k] ELSE Null

\* Python's == on JSON values: values of different types are unequal, except
\* that a boolean is an integer (True == 1, False == 0).
PyInt(a) == IF a.t = "bool" THEN (IF a.b THEN 1 ELSE 0) ELSE a.n
PyEq(a, b) ==
  IF a.t \in {"num", "bool"} /\ b.t \in {"num", "bool"}
  THEN PyInt(a) = PyInt(b)
  ELSE a = b

\* A find that lists with strict=False: unreadable records are passed over.
EncFindOpSkipping(s, f, t, filter, now) ==
  IF ~IsDict(filter)
  THEN Outcome(s, f, t, "InvalidDocumentError", NoRet)
  ELSE LET l == EncListOp(s, f, t, FALSE, now)
           all_docs == l.ret.docs
           results == {i \in DOMAIN all_docs :
                         \A k \in DOMAIN filter : PyEq(PyGet(all_docs[i], k), filter[k])}
       IN IF l.err # "none" THEN l
          ELSE [l EXCEPT !.ret = RetDocs([i \in results |-> all_docs[i]])]

\* EncryptedStorage.find(filter): the documents of list(strict=True) for which
\* all(doc.get(k) == v for k, v in filter.items()).
EncFindOp(s, f, t, filter, now) ==
  IF ~IsDict(filter)
  THEN Outcome(s, f, t, "InvalidDocumentError", NoRet)
  ELSE LET l == EncListOp(s, f, t, TRUE, now)
       IN IF l.err # "none" THEN l
          ELSE LET all_docs == l.ret.docs
                   results == {i \in DOMAIN all_docs :
                                 \A k \in DOMAIN filter : PyEq(PyGet(all_docs[i], k), filter[k])}
               IN [l EXCEPT !.ret = RetDocs([i \in results |-> all_docs[i]])]

\* DocumentStorage(path, app_name=None, salt=salt) on a path without a file:
\* fresh metadata carrying the salt, no documents, persisted at once.
NewStoreWithSalt(path, salt, now) ==
  [NewStore(path) EXCEPT !.meta = DictSet(InitializeMeta("", now), "salt", B64(salt))]

\* DocumentStorage.salt: whether the metadata carries a salt.
HasSalt(s) == "salt" \in DOMAIN s.meta

\* The paths that end in ".vault".
HasVaultExtension(path) == path \in Paths

\* A key derived from the passphrase alone.
OpenKeyWithoutSalt(passphrase, salt) == generate_key(passphrase, 0)

\* The key open() derives: passphrase with the salt recorded in the file.
OpenKey(passphrase, salt) == generate_key(passphrase, salt)

\* An open() that derives the key from a newly generated salt also when the
\* vault file exists and records one.
VaultOpenFreshSalt(f, path, passphrase, salt, now) ==
  IF passphrase = "" \/ ~HasVaultExtension(path)
  THEN [s |-> Closed, f |-> f, err |-> "ValueError"]
  ELSE IF f.kind # "absent"
  THEN LET probe == Load(NewStore(path), f, "", now)
       IN IF probe.err # "none" \/ ~HasSalt(probe.s) \/ ~IsB64(probe.s.meta["salt"])
          THEN [s |-> Closed, f |-> f, err |-> "CryptoError"]
          ELSE [s |-> Load([NewStore(path) EXCEPT !.key = OpenKey(passphrase, salt)], f, "", now).s,
                f |-> f, err |-> "none"]
  ELSE LET f1 == FileContent(NewStoreWithSalt(path, salt, now))
       IN [s |-> Load([NewStore(path) EXCEPT !.key = OpenKey(passphrase, salt)], f1, "", now).s,
           f |-> f1, err |-> "none"]

\* An open() that validates its arguments inside the try block: the
\* ValueError is wrapped as CryptoError.
VaultOpenWrappingValidation(f, path, passphrase, salt, now) ==
  IF passphrase = "" \/ ~HasVaultExtension(path)
  THEN [s |-> Closed, f |-> f, err |-> "CryptoError"]
  ELSE IF f.kind # "absent"
  THEN LET probe == Load(NewStore(path), f, "", now)
       IN IF probe.err # "none" \/ ~HasSalt(probe.s) \/ ~IsB64(probe.s.meta["salt"])
          THEN [s |-> Closed, f |-> f, err |-> "CryptoError"]
          ELSE LET key == OpenKey(passphrase, B64Decode(probe.s.meta["salt"]))
               IN [s |-> Load([NewStore(path) EXCEPT !.key = key], f, "", now).s,
                   f |-> f, err |-> "none"]
  ELSE LET f1 == FileContent(NewStoreWithSalt(path, salt, now))
           key == OpenKey(passphrase, salt)
       IN [s |-> Load([NewStore(path) EXCEPT !.key = key], f1, "", now).s,
           f |-> f1, err |-> "none"]

\* An open() that treats an existing file without content as a missing one:
\* it generates a salt and initializes a vault over it.
VaultOpenInitializingEmpty(f, path, passphrase, salt, now) ==
  IF passphrase = "" \/ ~HasVaultExtension(path)
  THEN [s |-> Closed, f |-> f, err |-> "ValueError"]
  ELSE IF f.kind \notin {"absent", "empty", "blank"}
  THEN LET probe == Load(NewStore(path), f, "", now)
       IN IF probe.err # "none" \/ ~HasSalt(probe.s) \/ ~IsB64(probe.s.meta["salt"])
          THEN [s |-> Closed, f |-> f, err |-> "CryptoError"]
          ELSE LET key == OpenKey(passphrase, B64Decode(probe.s.meta["salt"]))
               IN [s |-> Load([NewStore(path) EXCEPT !.key = key], f, "", now).s,
                   f |-> f, err |-> "none"]
  ELSE LET f1 == FileContent(NewStoreWithSalt(path, salt, now))
           key == OpenKey(passphrase, salt)
       IN [s |-> Load([NewStore(path) EXCEPT !.key = key], f1, "", now).s,
           f |-> f1, err |-> "none"]

\* EncryptedStorage.open(path, passphrase) where f is the file at path, salt
\* what generate_salt() returns and now the clock: the handle it returns (Closed
\* when it raises), the file afterwards and the error raised.
VaultOpen(f, path, passphrase, salt, now) ==
  IF passphrase = "" \/ ~HasVaultExtension(path)
  THEN [s |-> Closed, f |-> f, err |-> "ValueError"]
  ELSE IF f.kind # "absent"
  THEN LET probe == Load(NewStore(path), f, "", now)
       IN IF probe.err # "none" \/ ~HasSalt(probe.s) \/ ~IsB64(probe.s.meta["salt"])
          THEN [s |-> Closed, f |-> f, err |-> "CryptoError"]
          ELSE LET key == OpenKey(passphrase, B64Decode(probe.s.meta["salt"]))
               IN [s |-> Load([NewStore(path) EXCEPT !.key = key], f, "", now).s,
                   f |-> f, err |-> "none"]
  ELSE LET f1 == FileContent(NewStoreWithSalt(path, salt, now))
           key == OpenKey(passphrase, salt)
       IN [s |-> Load([NewStore(path) EXCEPT !.key = key], f1, "", now).s,
           f |-> f1, err |-> "none"]

\* ----------------------------------------------------------------- actions
Open(h) == stores[h].open
\* datetime.now() never runs backwards past a timestamp it has handed out.
Now(s) == {n \in Times : "created_at" \in DOMAIN s.meta => n >= s.meta["created_at"].at}
\* uuid4(), called when the document brings no `_id`, does not return an
\* identifier already in use.
FreshUuids(s) == Uuids \ DOMAIN s.data
TargetIds == {"a"} \cup Uuids

\* The documents map of the vault file at path p (empty while there is no JSON file).
FileDocs(p) ==
  IF files[p].kind = "json" /\ "documents" \in DOMAIN files[p].obj
  THEN files[p].obj["documents"] ELSE EmptyDict

\* The store h, its file and its directory take the outcome o of a call.
Commit(h, o, call) ==
  /\ stores' = [stores EXCEPT ![h] = o.s]
  /\ files' = [files EXCEPT ![stores[h].path] = o.f]
  /\ temps' = [temps EXCEPT ![stores[h].path] = o.t]
  /\ last' = call
  /\ faults' = IF o.fault THEN faults + 1 ELSE faults
  /\ UNCHANGED layer

\* The file system fails a rewrite only while the fault budget lasts.
Faults == IF faults < MaxFaults THEN Failures ELSE {"none"}

File(h) == files[stores[h].path]
Temps(h) == temps[stores[h].path]

\* The id an insert call is about (none when the argument is not a mapping).
CallId(doc, uuid) == IF IsDict(doc) THEN IdOrUuid(doc, uuid) ELSE NoId

\* store.insert(doc) on a DocumentStorage
DocInsertOn(h, doc, uuid, fail) ==
  /\ Open(h) /\ layer = "doc"
  /\ (CallId(doc, uuid) = uuid => uuid \in FreshUuids(stores[h])) /\ fail \in Faults
  /\ LET o == StoreInsert(stores[h], File(h), Temps(h), doc, uuid, fail)
     IN Commit(h, o, Call("insert", h, CallId(doc, uuid), o.err, o.ret, o.writes))

\* store.get(id)
DocGetOn(h, id) ==
  /\ Open(h) /\ layer = "doc"
  /\ last' = Call("get", h, id, "none", StoreGet(stores[h], id), 0)
  /\ UNCHANGED <<files, temps, stores, layer, faults>>

\* store.update(id, updates)
DocUpdateOn(h, id, updates, fail) ==
  /\ Open(h) /\ layer = "doc" /\ fail \in Faults
  /\ LET o == StoreUpdate(stores[h], File(h), Temps(h), id, updates, fail)
     IN Commit(h, o, Call("update", h, id, o.err, o.ret, o.writes))

\* store.delete(id)
DocDeleteOn(h, id, fail) ==
  /\ Open(h) /\ layer = "doc" /\ fail \in Faults
  /\ LET o == StoreDelete(stores[h], File(h), Temps(h), id, fail)
     IN Commit(h, o, Call("delete", h, id, o.err, o.ret, o.writes))

\* store.list()
DocListOn(h, now) ==
  /\ Open(h) /\ layer = "doc" /\ now \in Now(stores[h])
  /\ LET o == StoreList(stores[h], File(h), Temps(h), now)
     IN Commit(h, o, Call("list", h, NoId, o.err, o.ret, o.writes))

\* vault.insert(doc) on an EncryptedStorage
EncInsertOn(h, doc, uuid, fail) ==
  /\ Open(h) /\ layer = "enc"
  /\ (CallId(doc, uuid) = uuid => uuid \in FreshUuids(stores[h])) /\ fail \in Faults
  /\ LET o == EncInsertOp(stores[h], File(h), Temps(h), doc, uuid, fail)
     IN Commit(h, o, Call("insert", h, CallId(doc, uuid), o.err, o.ret, o.writes))

\* vault.get(id)
EncGetOn(h, id) ==
  /\ Open(h) /\ layer = "enc"
  /\ LET g == EncGetOp(stores[h], id)
     IN last' = Call("get", h, id, g.err, g.ret, 0)
  /\ UNCHANGED <<files, temps, stores, layer, faults>>

\* vault.update(id, updates)
EncUpdateOn(h, id, updates, fail) ==
  /\ Open(h) /\ layer = "enc" /\ fail \in Faults
  /\ LET o == EncUpdateOp(stores[h], File(h), Temps(h), id, updates, fail)
     IN Commit(h, o, Call("update", h, id, o.err, o.ret, o.writes))

\* vault.delete(id)
EncDeleteOn(h, id, fail) ==
  /\ Open(h) /\ layer = "enc" /\ fail \in Faults
  /\ LET o == EncDeleteOp(stores[h], File(h), Temps(h), id, fail)
     IN Commit(h, o, Call("delete", h, id, o.err, o.ret, o.writes))

\* vault.list(strict)
EncListOn(h, strict, now) ==
  /\ Open(h) /\ layer = "enc" /\ now \in Now(stores[h])
  /\ LET o == EncListOp(stores[h], File(h), Temps(h), strict, now)
     IN Commit(h, o, Call("list", h, NoId, o.err, o.ret, o.writes))

\* vault.find(filter)
EncFindOn(h, filter, now) ==
  /\ Open(h) /\ layer = "enc" /\ now \in Now(stores[h])
  /\ LET o == EncFindOp(stores[h], File(h), Temps(h), filter, now)
     IN Commit(h, o, Call("find", h, NoId, o.err, o.ret, o.writes))

\* ----------------------------------------------------------- specification
\* The key a caller hands to EncryptedStorage(path, key).
CallerKey == generate_key("pw", 0)

\* One store on path p1, built by DocumentStorage(path, app_name) or by
\* EncryptedStorage(path, key), over a file that is missing or empty.
Init ==
  /\ layer \in {"doc", "enc"}
  /\ \E f \in {Absent, EmptyFile}, app_name \in {"", "app"} :
       /\ files = [p \in Paths |-> IF p = "p1" THEN f ELSE Absent]
       /\ app_name = IF layer = "enc" THEN "" ELSE "app"
       /\ stores = [h \in Handles |->
            IF h = "h1"
            THEN Load([NewStore("p1") EXCEPT !.key = IF layer = "enc" THEN CallerKey ELSE NoKey],
                      f, app_name, 1).s
            ELSE Closed]
  /\ temps = [p \in Paths |-> 0]
  /\ faults = 0
  /\ last = Call("init", "h1", NoId, "none", NoRet, 0)

Next ==
  \E h \in Handles :
    \/ \E doc \in Docs, uuid \in Uuids, fail \in Failures : DocInsertOn(h, doc, uuid, fail)
    \/ \E id \in TargetIds : DocGetOn(h, id)
    \/ \E id \in TargetIds, updates \in Partials, fail \in Failures : DocUpdateOn(h, id, updates, fail)
    \/ \E id \in TargetIds, fail \in Failures : DocDeleteOn(h, id, fail)
    \/ \E now \in Times : DocListOn(h, now)
    \/ \E doc \in Docs, uuid \in Uuids, fail \in Failures : EncInsertOn(h, doc, uuid, fail)
    \/ \E id \in TargetIds : EncGetOn(h, id)
    \/ \E id \in TargetIds, updates \in Partials, fail \in Failures : EncUpdateOn(h, id, updates, fail)
    \/ \E id \in TargetIds, fail \in Failures : EncDeleteOn(h, id, fail)
    \/ \E strict \in BOOLEAN, now \in Times : EncListOn(h, strict, now)

Spec == Init /\ [][Next]_vars

\* ------------------------------------------------- vaults from passphrases
\* The salts recorded in the vault files so far.
UsedSalts ==
  {n \in Salts : \E p \in Paths :
     /\ files[p].kind = "json" /\ IsDict(files[p].obj)
     /\ "_meta" \in DOMAIN files[p].obj
     /\ "salt" \in DOMAIN files[p].obj["_meta"]
     /\ files[p].obj["_meta"]["salt"] = B64(n)}

\* h = EncryptedStorage.open(path, passphrase); generate_salt() does not
\* return a salt it has returned before.
OpenOn(h, path, passphrase, salt, now) ==
  /\ ~Open(h) /\ salt \notin UsedSalts
  /\ LET o == VaultOpen(files[path], path, passphrase, salt, now)
     IN /\ stores' = [stores EXCEPT ![h] = o.s]
        /\ files' = [files EXCEPT ![path] = o.f]
        /\ last' = Call("open", h, NoId, o.err, NoRet, IF o.f = files[path] THEN 0 ELSE 1)
  /\ UNCHANGED <<temps, layer, faults>>

\* to.store.insert(DocumentStorage(from's path).data[id]): a raw record is
\* copied from the file of one vault into the document map of another.
RawCopyOn(from, to, id) ==
  /\ Open(from) /\ Open(to) /\ stores[from].path # stores[to].path
  /\ id \in DOMAIN FileDocs(stores[from].path)
  /\ LET o == StoreInsert(stores[to], File(to), Temps(to),
                          FileDocs(stores[from].path)[id], "u1", "none")
     IN Commit(to, o, Call("copy", to, id, o.err, o.ret, o.writes))

\* The documents and partials the callers of the two vaults pass.
VaultDocs ==
  {d \in Docs : ("_id" \in DOMAIN d => Truthy(d["_id"])) /\ "n" \in DOMAIN d /\ d["n"] = Str("x")}
VaultPartials == {d \in Partials : DOMAIN d = {"n"} /\ d["n"] = Str("y")}

\* No store is open and no vault file exists yet.
InitVaults ==
  /\ layer = "enc"
  /\ files = [p \in Paths |-> Absent]
  /\ stores = [h \in Handles |-> Closed]
  /\ temps = [p \in Paths |-> 0]
  /\ faults = 0
  /\ last = Call("init", "h1", NoId, "none", NoRet, 0)

\* Two handles are opened from passphrases, on the same path or on two, and
\* driven through EncryptedStorage while every rewrite succeeds.
NextVaults ==
  \E h \in Handles :
    \/ \E path \in Paths, passphrase \in Passphrases, salt \in Salts :
         OpenOn(h, path, passphrase, salt, 1)
    \/ \E doc \in VaultDocs, uuid \in Uuids : EncInsertOn(h, doc, uuid, "none")
    \/ \E id \in TargetIds : EncGetOn(h, id)
    \/ \E id \in TargetIds, updates \in VaultPartials : EncUpdateOn(h, id, updates, "none")
    \/ \E from \in Handles, id \in TargetIds : RawCopyOn(from, h, id)

SpecVaults == InitVaults /\ [][NextVaults]_vars

\* Handles are opened from one passphrase on path p1, the first of them
\* creating the vault, and mutate it while rewrites may fail.
NextSalt ==
  \E h \in Handles :
    \/ \E salt \in Salts : OpenOn(h, "p1", "pw", salt, 1)
    \/ \E doc \in VaultDocs, uuid \in Uuids, fail \in Failures : EncInsertOn(h, doc, uuid, fail)
    \/ \E id \in TargetIds, updates \in VaultPartials, fail \in Failures :
         EncUpdateOn(h, id, updates, fail)
    \/ \E id \in TargetIds, fail \in Failures : EncDeleteOn(h, id, fail)

SpecSalt == InitVaults /\ [][NextSalt]_vars

\* ------------------------------------------------------ arguments of calls
\* Values of the user field `n`: a string, a number, a boolean, null.
FindVals == {Str("1"), Num(1), Bool(TRUE), Null}
\* The documents the callers insert: `_id` absent or "a", `n` absent or a value.
InputDocs ==
  { d \in UNION {[S -> {Str("a")} \cup FindVals] : S \in SUBSET {"_id", "n"}} :
      /\ ("_id" \in DOMAIN d => d["_id"] = Str("a"))
      /\ ("n" \in DOMAIN d => d["n"] \in FindVals) }
\* The partials they pass to update.
InputPartials == {d \in InputDocs : DOMAIN d = {"n"}}
\* The filters they pass to find: over `n` and over a key `m` no document has.
Filters == UNION {[S -> FindVals] : S \in SUBSET {"n", "m"}}

\* One store on path p1, as in Init, over a file that is missing.
InitInputs ==
  /\ layer \in {"doc", "enc"}
  /\ files = [p \in Paths |-> Absent]
  /\ stores = [h \in Handles |->
       IF h = "h1"
       THEN Load([NewStore("p1") EXCEPT !.key = IF layer = "enc" THEN CallerKey ELSE NoKey],
                 Absent, "", 1).s
       ELSE Closed]
  /\ temps = [p \in Paths |-> 0]
  /\ faults = 0
  /\ last = Call("init", "h1", NoId, "none", NoRet, 0)

\* The callers pass mappings and non-mappings to insert, update and find
\* while every rewrite succeeds.
NextInputs ==
  \E h \in Handles :
    \/ \E doc \in InputDocs \cup NonMappings, uuid \in Uuids :
         DocInsertOn(h, doc, uuid, "none") \/ EncInsertOn(h, doc, uuid, "none")
    \/ \E id \in TargetIds, updates \in InputPartials \cup NonMappings :
         DocUpdateOn(h, id, updates, "none") \/ EncUpdateOn(h, id, updates, "none")
    \/ \E filter \in Filters \cup NonMappings : EncFindOn(h, filter, 1)

SpecInputs == InitInputs /\ [][NextInputs]_vars

\* Every call of both layers with mappings and non-mappings as arguments.
NextCalls ==
  \/ NextInputs
  \/ \E h \in Handles, id \in TargetIds :
       \/ DocGetOn(h, id) \/ EncGetOn(h, id)
       \/ DocDeleteOn(h, id, "none") \/ EncDeleteOn(h, id, "none")

SpecCalls == InitInputs /\ [][NextCalls]_vars

\* ------------------------------------------------- two stores on one file
\* Two DocumentStorage objects constructed on path p1 while no file exists.
InitShared ==
  /\ layer = "doc"
  /\ files = [p \in Paths |-> Absent]
  /\ stores = [h \in Handles |-> Load(NewStore("p1"), Absent, "", 1).s]
  /\ temps = [p \in Paths |-> 0]
  /\ faults = 0
  /\ last = Call("init", "h1", NoId, "none", NoRet, 0)

\* Each store mutates the file, with rewrites that may fail, and lists it:
\* what one store writes is a change made from outside for the other.
NextShared ==
  \E h \in Handles :
    \/ \E doc \in VaultDocs, uuid \in Uuids, fail \in Failures : DocInsertOn(h, doc, uuid, fail)
    \/ \E id \in TargetIds, updates \in VaultPartials, fail \in Failures :
         DocUpdateOn(h, id, updates, fail)
    \/ \E id \in TargetIds, fail \in Failures : DocDeleteOn(h, id, fail)
    \/ \E id \in TargetIds : DocGetOn(h, id)
    \/ DocListOn(h, 1)

SpecShared == InitShared /\ [][NextShared]_vars

\* ------------------------------------------- a rewrite, one step at a time
\* The temporary file NamedTemporaryFile creates in the directory of path.
TempPath(path) == "p1.tmp"
TempPaths == {TempPath(p) : p \in {"p1"}}
\* A rewrite that dumps straight into the vault file.
DumpTargetInPlace(path) == path
\* The file json.dump writes into: the temporary file.
DumpTarget(path) == TempPath(path)

\* No call is in progress.
NoCall == [op |-> "none", id |-> NoId, ret |-> NoRet]
\* A store object together with the position of the call running on it: pc
\* is "idle" or, inside _atomic_write, "writing"; doing is the call that is
\* writing and the value it will return.
Stepping(s, pc, doing) ==
  [open |-> s.open, path |-> s.path, meta |-> s.meta, data |-> s.data, key |-> s.key,
   pc |-> pc, doing |-> doing]
Idle(h) == Open(h) /\ stores[h].pc = "idle"
Writing(h) == Open(h) /\ stores[h].pc = "writing"

\* A mutating call on store h runs up to the creation of the temporary file:
\* o is what the call makes of the store object. A call that starts no
\* rewrite (it raised, or found nothing) is over; otherwise memory is changed
\* and the temporary file exists, empty.
Begin(h, o, op, id) ==
  /\ IF o.writes = 0
     THEN /\ stores' = [stores EXCEPT ![h] = o.s]
          /\ files' = files
          /\ last' = Call(op, h, id, o.err, o.ret, 0)
     ELSE /\ stores' = [stores EXCEPT ![h] =
               Stepping(o.s, "writing", [op |-> op, id |-> id, ret |-> o.ret])]
          /\ files' = [files EXCEPT ![DumpTarget(stores[h].path)] = EmptyFile]
          /\ last' = Call("begin", h, id, "none", NoRet, 0)
  /\ UNCHANGED <<temps, layer, faults>>

\* store.insert(doc), up to the creation of the temporary file
InsertBeginOn(h, doc, uuid) ==
  /\ Idle(h) /\ layer = "doc"
  /\ (CallId(doc, uuid) = uuid => uuid \in FreshUuids(stores[h]))
  /\ Begin(h, StoreInsert(stores[h], File(h), Temps(h), doc, uuid, "none"),
           "insert", CallId(doc, uuid))

\* store.update(id, updates), up to the creation of the temporary file
UpdateBeginOn(h, id, updates) ==
  /\ Idle(h) /\ layer = "doc"
  /\ Begin(h, StoreUpdate(stores[h], File(h), Temps(h), id, updates, "none"), "update", id)

\* store.delete(id), up to the creation of the temporary file
DeleteBeginOn(h, id) ==
  /\ Idle(h) /\ layer = "doc"
  /\ Begin(h, StoreDelete(stores[h], File(h), Temps(h), id, "none"), "delete", id)

\* json.dump has written a part of the content.
DumpSomeOn(h) ==
  /\ Writing(h) /\ files[DumpTarget(stores[h].path)].kind = "empty"
  /\ files' = [files EXCEPT ![DumpTarget(stores[h].path)] = PartialFile]
  /\ last' = Call("dump", h, stores[h].doing.id, "none", NoRet, 0)
  /\ UNCHANGED <<temps, stores, layer, faults>>

\* json.dump has written the rest and the temporary file is closed.
DumpRestOn(h) ==
  /\ Writing(h) /\ files[DumpTarget(stores[h].path)].kind = "partial"
  /\ files' = [files EXCEPT ![DumpTarget(stores[h].path)] = FileContent(stores[h])]
  /\ last' = Call("dump", h, stores[h].doing.id, "none", NoRet, 0)
  /\ UNCHANGED <<temps, stores, layer, faults>>

\* os.replace(temp_path, self.path), and the call returns.
ReplaceOn(h) ==
  /\ Writing(h) /\ files[DumpTarget(stores[h].path)].kind = "json"
  /\ files' = [files EXCEPT ![DumpTarget(stores[h].path)] = Absent,
                            ![stores[h].path] = files[DumpTarget(stores[h].path)]]
  /\ stores' = [stores EXCEPT ![h] = Stepping(@, "idle", NoCall)]
  /\ last' = Call(stores[h].doing.op, h, stores[h].doing.id, "none", stores[h].doing.ret, 1)
  /\ UNCHANGED <<temps, layer, faults>>

\* json.dump or os.replace raises: the call raises StorageError and the
\* temporary file stays behind in the directory under its own name.
WriteFailOn(h) ==
  /\ Writing(h) /\ faults < MaxFaults
  /\ files' = [files EXCEPT ![DumpTarget(stores[h].path)] = Absent]
  /\ temps' = [temps EXCEPT ![stores[h].path] = @ + 1]
  /\ stores' = [stores EXCEPT ![h] = Stepping(@, "idle", NoCall)]
  /\ faults' = faults + 1
  /\ last' = Call(stores[h].doing.op, h, stores[h].doing.id, "StorageError", NoRet, 1)
  /\ UNCHANGED layer

\* Two DocumentStorage objects on path p1 while no file exists: h1 will
\* write, h2 will read.
InitSteps ==
  /\ layer = "doc"
  /\ files = [p \in Paths \cup TempPaths |-> Absent]
  /\ stores = [h \in Handles |-> Stepping(Load(NewStore("p1"), Absent, "", 1).s, "idle", NoCall)]
  /\ temps = [p \in Paths \cup TempPaths |-> 0]
  /\ faults = 0
  /\ last = Call("init", "h1", NoId, "none", NoRet, 0)

\* The store h1 mutates the file step by step while h2 reloads it at any point.
NextSteps ==
  \/ \E doc \in VaultDocs : InsertBeginOn("h1", doc, "u1")
  \/ \E id \in TargetIds, updates \in VaultPartials : UpdateBeginOn("h1", id, updates)
  \/ \E id \in TargetIds : DeleteBeginOn("h1", id)
  \/ DumpSomeOn("h1") \/ DumpRestOn("h1") \/ ReplaceOn("h1") \/ WriteFailOn("h1")
  \/ DocListOn("h2", 1)

SpecSteps == InitSteps /\ [][NextSteps]_vars

\* ------------------------------------------------- records edited on disk
\* The ways a stored record is damaged in the vault file: its `data` replaced
\* by text that is no ciphertext, or by a ciphertext made under another key,
\* its `data` removed, or all its fields removed.
Damages == {"garbage", "otherkey", "nodata", "empty"}
Damaged(raw, how) ==
  CASE how = "garbage"  -> DictSet(raw, "data", Str("!@#$%^&*()"))
    [] how = "otherkey" -> DictSet(raw, "data", encrypt_document(EmptyDict, generate_key("pw2", 0)))
    [] how = "nodata"   -> DictDel(raw, "data")
    [] how = "empty"    -> EmptyDict

\* Another program rewrites the vault file at path with record id damaged.
TamperOn(path, id, how) ==
  /\ id \in DOMAIN FileDocs(path)
  /\ files' = [files EXCEPT ![path] =
       JsonFile([@.obj EXCEPT !["documents"] = DictSet(@, id, Damaged(@[id], how))])]
  /\ last' = Call("tamper", "h1", id, "none", NoRet, 0)
  /\ UNCHANGED <<temps, stores, layer, faults>>

\* One EncryptedStorage on path p1 over a missing file.
InitTamper ==
  /\ layer = "enc"
  /\ files = [p \in Paths |-> Absent]
  /\ stores = [h \in Handles |->
       IF h = "h1" THEN Load([NewStore("p1") EXCEPT !.key = CallerKey], Absent, "", 1).s
       ELSE Closed]
  /\ temps = [p \in Paths |-> 0]
  /\ faults = 0
  /\ last = Call("init", "h1", NoId, "none", NoRet, 0)

\* The vault is driven through EncryptedStorage while records of its file
\* are damaged from outside; list() reloads the file into memory.
NextTamper ==
  \/ \E id \in TargetIds, how \in Damages : TamperOn("p1", id, how)
  \/ \E h \in Handles :
       \/ \E doc \in VaultDocs, uuid \in Uuids : EncInsertOn(h, doc, uuid, "none")
       \/ \E id \in TargetIds : EncGetOn(h, id)
       \/ \E id \in TargetIds, updates \in VaultPartials : EncUpdateOn(h, id, updates, "none")
       \/ \E strict \in BOOLEAN : EncListOn(h, strict, 1)

SpecTamper == InitTamper /\ [][NextTamper]_vars

\* The filters passed to find over a damaged vault: none of them is empty, so
\* a record without any readable field cannot match them.
TamperFilters == {"_id" :> Str("a"), "n" :> Str("x")}

\* The same vault, also searched with find.
NextFind ==
  \/ NextTamper
  \/ \E h \in Handles, filter \in TamperFilters : EncFindOn(h, filter, 1)

SpecFind == InitTamper /\ [][NextFind]_vars

\* ------------------------------------------------------- the metadata view
\* ProtectedMetaDict._protected_keys
ProtectedKeys == {"created_at", "vault_version"}
\* The keys and values the callers use on store.meta.
MetaKeys == ProtectedKeys \cup {"label"}
MetaVals == {Str("2.0.0"), Str("alpha")}
MetaUpdates == UNION {[S -> MetaVals] : S \in SUBSET MetaKeys \ {{}}}

\* The outcome of an operation on the metadata view: the metadata afterwards
\* and the error raised.
MetaOutcome(meta, err) == [meta |-> meta, err |-> err]

\* ProtectedMetaDict.__setitem__(key, value)
MetaSetItem(meta, key, value) ==
  IF key \in ProtectedKeys
  THEN MetaOutcome(meta, "RuntimeError")
  ELSE MetaOutcome(DictSet(meta, key, value), "none")

\* An update() that is dict's own: no key is checked.
MetaUpdateUnchecked(meta, u) == MetaOutcome(DictUpdate(meta, u), "none")

\* An update() that checks each key as it writes it: the keys that are not
\* protected are written although the call raises.
MetaUpdateWritingAsItChecks(meta, u) ==
  IF DOMAIN u \cap ProtectedKeys # {}
  THEN MetaOutcome(DictUpdate(meta, [k \in DOMAIN u \ ProtectedKeys |-> u[k]]), "RuntimeError")
  ELSE MetaOutcome(DictUpdate(meta, u), "none")

\* ProtectedMetaDict.update(u): every key is checked before any is written.
MetaUpdate(meta, u) ==
  IF DOMAIN u \cap ProtectedKeys # {}
  THEN MetaOutcome(meta, "RuntimeError")
  ELSE MetaOutcome(DictUpdate(meta, u), "none")

\* del meta[key], meta.pop(key), meta.setdefault(key, value), meta.clear():
\* ProtectedMetaDict does not override them, they are dict's own.
MetaDelItem(meta, key) ==
  IF key \in DOMAIN meta THEN MetaOutcome(DictDel(meta, key), "none")
  ELSE MetaOutcome(meta, "KeyError")
MetaPop(meta, key) ==
  IF key \in DOMAIN meta THEN MetaOutcome(DictDel(meta, key), "none")
  ELSE MetaOutcome(meta, "KeyError")
MetaSetDefault(meta, key, value) ==
  IF key \in DOMAIN meta THEN MetaOutcome(meta, "none")
  ELSE MetaOutcome(DictSet(meta, key, value), "none")
MetaClear(meta) == MetaOutcome(EmptyDict, "none")

\* The metadata of store h takes the outcome o of the operation op.
MetaCommit(h, op, o) ==
  /\ stores' = [stores EXCEPT ![h].meta = o.meta]
  /\ last' = Call(op, h, NoId, o.err, NoRet, 0)
  /\ UNCHANGED <<files, temps, layer, faults>>

\* store.meta[key] = value
MetaSetItemOn(h, key, value) ==
  /\ Open(h)
  /\ MetaCommit(h, "meta.setitem", MetaSetItem(stores[h].meta, key, value))
\* store.meta.update(u)
MetaUpdateOn(h, u) ==
  /\ Open(h)
  /\ MetaCommit(h, "meta.update", MetaUpdate(stores[h].meta, u))
\* del store.meta[key]
MetaDelItemOn(h, key) ==
  /\ Open(h)
  /\ MetaCommit(h, "meta.delitem", MetaDelItem(stores[h].meta, key))
\* store.meta.pop(key)
MetaPopOn(h, key) ==
  /\ Open(h)
  /\ MetaCommit(h, "meta.pop", MetaPop(stores[h].meta, key))
\* store.meta.setdefault(key, value)
MetaSetDefaultOn(h, key, value) ==
  /\ Open(h)
  /\ MetaCommit(h, "meta.setdefault", MetaSetDefault(stores[h].meta, key, value))
\* store.meta.clear()
MetaClearOn(h) ==
  /\ Open(h)
  /\ MetaCommit(h, "meta.clear", MetaClear(stores[h].meta))

\* One DocumentStorage(path, app_name="app") on a missing file.
InitMeta ==
  /\ layer = "doc"
  /\ files = [p \in Paths |-> Absent]
  /\ stores = [h \in Handles |->
       IF h = "h1" THEN Load(NewStore("p1"), Absent, "app", 1).s ELSE Closed]
  /\ temps = [p \in Paths |-> 0]
  /\ faults = 0
  /\ last = Call("init", "h1", NoId, "none", NoRet, 0)

\* The callers use the metadata view of the store.
NextMeta ==
  \E h \in Handles :
    \/ \E key \in MetaKeys, value \in MetaVals : MetaSetItemOn(h, key, value)
    \/ \E u \in MetaUpdates : MetaUpdateOn(h, u)
    \/ \E key \in MetaKeys : MetaDelItemOn(h, key)
    \/ \E key \in MetaKeys : MetaPopOn(h, key)
    \/ \E key \in MetaKeys, value \in MetaVals : MetaSetDefaultOn(h, key, value)
    \/ MetaClearOn(h)

SpecMeta == InitMeta /\ [][NextMeta]_vars

\* --------------------------------------- metadata edits between rewrites
\* The caller of the store of InitMeta sets and removes metadata fields
\* between mutations whose rewrites may fail, and lists the store.
NextSync ==
  \E h \in Handles :
    \/ \E doc \in VaultDocs, uuid \in Uuids, fail \in Failures : DocInsertOn(h, doc, uuid, fail)
    \/ \E id \in TargetIds, updates \in VaultPartials, fail \in Failures :
         DocUpdateOn(h, id, updates, fail)
    \/ \E id \in TargetIds, fail \in Failures : DocDeleteOn(h, id, fail)
    \/ \E now \in Times : DocListOn(h, now)
    \/ \E value \in MetaVals : MetaSetItemOn(h, "label", value)
    \/ MetaDelItemOn(h, "label")

SpecSync == InitMeta /\ [][NextSync]_vars

\* ------------------------------------------------- files found at a path
\* A record as EncryptedStorage stores it, and metadata as a vault file has it.
StoredRecord == ("_id" :> Str("a")) @@ ("data" :> encrypt_document("_id" :> Str("a"), generate_key("pw", 1)))
FileMeta == InitializeMeta("", 1)
\* What a program can find at a path: no file, an empty or blank file, text
\* that is not JSON, JSON that is a number, null, a string, a legacy flat map
\* of records, an object without `documents`, and vault files without a salt,
\* with a salt that is not base64, and with a salt and a document.
StartFiles ==
  { Absent, EmptyFile, BlankFile, PartialFile,
    JsonFile(Num(42)), JsonFile(Null), JsonFile(Str("abc")),
    JsonFile("a" :> StoredRecord),
    JsonFile("_meta" :> FileMeta),
    JsonFile(("_meta" :> FileMeta) @@ ("documents" :> EmptyDict)),
    JsonFile(("_meta" :> DictSet(FileMeta, "salt", Str("!!!notbase64"))) @@ ("documents" :> EmptyDict)),
    JsonFile(("_meta" :> DictSet(FileMeta, "salt", B64(1))) @@ ("documents" :> ("a" :> StoredRecord))) }

\* stores[h] = DocumentStorage(path, app_name): the object exists when _load
\* returns; the constructor writes nothing.
ConstructOn(h, path, app_name, now) ==
  /\ ~Open(h) /\ layer = "doc"
  /\ LET l == Load(NewStore(path), files[path], app_name, now)
     IN /\ stores' = [stores EXCEPT ![h] = IF l.err = "none" THEN l.s ELSE Closed]
        /\ last' = Call("construct", h, NoId, l.err, NoRet, 0)
  /\ UNCHANGED <<files, temps, layer, faults>>

\* Nothing is constructed yet; the file at p1 is whatever was left there.
InitLoad ==
  /\ layer = "doc"
  /\ \E f \in StartFiles : files = [p \in Paths |-> IF p = "p1" THEN f ELSE Absent]
  /\ stores = [h \in Handles |-> Closed]
  /\ temps = [p \in Paths |-> 0]
  /\ faults = 0
  /\ last = Call("init", "h1", NoId, "none", NoRet, 0)

\* Stores are constructed on the paths and documents inserted through them.
NextLoad ==
  \E h \in Handles :
    \/ \E path \in Paths, app_name \in {"", "app"} : ConstructOn(h, path, app_name, 1)
    \/ \E doc \in VaultDocs, uuid \in Uuids : DocInsertOn(h, doc, uuid, "none")

SpecLoad == InitLoad /\ [][NextLoad]_vars

\* A path that does not end in ".vault".
PlainPaths == {"notes.json"}

\* Nothing is open yet; the file at p1 is whatever was left there.
InitOpen ==
  /\ layer = "enc"
  /\ \E f \in StartFiles :
       files = [p \in Paths \cup PlainPaths |-> IF p = "p1" THEN f ELSE Absent]
  /\ stores = [h \in Handles |-> Closed]
  /\ temps = [p \in Paths \cup PlainPaths |-> 0]
  /\ faults = 0
  /\ last = Call("init", "h1", NoId, "none", NoRet, 0)

\* Vaults are opened with any passphrase on any path, and used.
NextOpen ==
  \E h \in Handles :
    \/ \E path \in Paths \cup PlainPaths, passphrase \in {"", "pw"}, salt \in Salts :
         OpenOn(h, path, passphrase, salt, 1)
    \/ \E doc \in VaultDocs, uuid \in Uuids : EncInsertOn(h, doc, uuid, "none")
    \/ \E id \in TargetIds : EncGetOn(h, id)

SpecOpen == InitOpen /\ [][NextOpen]_vars

\* ------------------------------------------------------ the document cipher
\* The documents handed to encrypt_document: flat documents with values of
\* every JSON scalar type, and a document with a nested mapping.
CipherDocs == InputDocs \cup {("_id" :> Str("a")) @@ ("meta" :> ("n" :> Num(1)))}
\* Text that is no token.
NotAToken == Str("not-a-real-token")
\* What an encrypt call leaves behind: the document, the key and the token.
RetToken(doc, key, token) == [arg |-> doc, key |-> key, token |-> token]

\* A decrypt call as `last` records it: the token it was given, the error
\* raised and the document returned.
DecryptCall(token, err, ret) ==
  [op |-> "decrypt", h |-> "h1", id |-> NoId, err |-> err, ret |-> ret, writes |-> 0,
   arg |-> token]

\* token = encrypt_document(doc, generate_key(passphrase, salt)); a value
\* that is no mapping raises CryptoError.
EncryptOn(doc, passphrase, salt) ==
  /\ LET key == generate_key(passphrase, salt)
     IN last' = IF IsDict(doc)
                THEN Call("encrypt", "h1", NoId, "none",
                          RetToken(doc, key, encrypt_document(doc, key)), 0)
                ELSE Call("encrypt", "h1", NoId, "CryptoError", NoRet, 0)
  /\ UNCHANGED <<files, temps, stores, layer, faults>>

\* decrypt_document(token, generate_key(passphrase, salt)) on the token of the
\* last encrypt call, or on text that is no token.
DecryptOn(token, passphrase, salt) ==
  /\ \/ token = NotAToken
     \/ last.op = "encrypt" /\ last.err = "none" /\ token = last.ret.token
  /\ LET key == generate_key(passphrase, salt)
     IN last' = IF CanDecrypt(token, key)
                THEN DecryptCall(token, "none", RetDoc(decrypt_document(token, key)))
                ELSE DecryptCall(token, "CryptoError", NoRet)
  /\ UNCHANGED <<files, temps, stores, layer, faults>>

\* No vault is involved: nothing is open and no file exists.
InitCrypto ==
  /\ layer = "enc"
  /\ files = [p \in Paths |-> Absent]
  /\ stores = [h \in Handles |-> Closed]
  /\ temps = [p \in Paths |-> 0]
  /\ faults = 0
  /\ last = Call("init", "h1", NoId, "none", NoRet, 0)

\* Documents are encrypted under derived keys and the tokens decrypted under
\* the same or another derived key.
NextCrypto ==
  \E passphrase \in Passphrases, salt \in Salts :
    \/ \E doc \in CipherDocs \cup NonMappings : EncryptOn(doc, passphrase, salt)
    \/ \E token \in {NotAToken} \cup
                      (IF last.op = "encrypt" /\ last.err = "none" THEN {last.ret.token} ELSE {}) :
         DecryptOn(token, passphrase, salt)

SpecCrypto == InitCrypto /\ [][NextCrypto]_vars

\* ------------------------------------------------------------ the audit log
\* The most lines a log file grows to.
MaxLog == 3
\* The largest n passed to tail(n).
MaxTail == 4
\* The documents inserted while logging: `_id` "a" and a field.
LogDocs == {d \in VaultDocs : "_id" \in DOMAIN d}
\* The log file of the vault at path: path with ".vault" replaced by ".vaultlog".
LogPath(path) == "p1.vaultlog"
LogPaths == {LogPath(p) : p \in {"p1"}}
\* A log file: one token per line.
LogFile(lines) == [kind |-> "log", lines |-> lines]
LogLines(f) == IF f.kind = "log" THEN f.lines ELSE <<>>
\* A line that is no token.
CorruptLine == Str("not-a-token")
\* A key other than the one the log was written with.
WrongKey == generate_key("pw2", 0)
\* The entry log() builds: {op, _id, at, meta}.
AuditEntry(op, id, meta, now) ==
  ("op" :> Str(op)) @@ ("_id" :> Str(id)) @@ ("at" :> Time(now)) @@ ("meta" :> meta)
\* What entries() and tail() return: the decrypted entries in file order.
RetEntries(es) == [entries |-> es]

\* The ways appending to the log fails: opening the file raises (inside
\* log()), or log() itself was replaced by a function that raises.
LogFailures == {"none", "io", "raise"}

\* A log() that rewrites the file with the new entry alone.
AuditLogTruncating(f, key, op, id, meta, now, fail, hook) ==
  IF fail = "none"
  THEN [f |-> LogFile(<<encrypt_document(AuditEntry(op, id, meta, now), key)>>),
        err |-> "none", hooked |-> FALSE]
  ELSE [f |-> f, err |-> IF fail = "raise" THEN "IOError" ELSE "none",
        hooked |-> fail = "io" /\ hook]

\* A log() that lets the I/O error out to its caller.
AuditLogRaising(f, key, op, id, meta, now, fail, hook) ==
  IF fail = "none"
  THEN [f |-> LogFile(Append(LogLines(f), encrypt_document(AuditEntry(op, id, meta, now), key))),
        err |-> "none", hooked |-> FALSE]
  ELSE [f |-> f, err |-> "IOError", hooked |-> FALSE]

\* VaultAuditLog.log(op, id, meta) on the log file f: the file afterwards, the
\* error that leaves log() and whether the error hook was called. An I/O
\* failure is swallowed and handed to the hook when there is one.
AuditLog(f, key, op, id, meta, now, fail, hook) ==
  IF fail = "none"
  THEN [f |-> LogFile(Append(LogLines(f), encrypt_document(AuditEntry(op, id, meta, now), key))),
        err |-> "none", hooked |-> FALSE]
  ELSE [f |-> f, err |-> IF fail = "raise" THEN "IOError" ELSE "none",
        hooked |-> fail = "io" /\ hook]

\* An entries() that skips the lines it cannot decrypt.
AuditEntriesSkipping(f, key) ==
  LET lines == LogLines(f)
  IN [err |-> "none",
      ret |-> RetEntries([i \in 1..Len(SelectSeq(lines, LAMBDA l : CanDecrypt(l, key))) |->
                 decrypt_document(SelectSeq(lines, LAMBDA l : CanDecrypt(l, key))[i], key)])]

\* VaultAuditLog.entries(): every line decrypted, in file order; no file, no
\* entries; one line that does not decrypt fails the whole call.
AuditEntries(f, key) ==
  LET lines == LogLines(f)
  IN IF \E i \in 1..Len(lines) : ~CanDecrypt(lines[i], key)
     THEN [err |-> "CryptoError", ret |-> NoRet]
     ELSE [err |-> "none",
           ret |-> RetEntries([i \in 1..Len(lines) |-> decrypt_document(lines[i], key)])]

\* A tail(n) that returns the first n entries.
AuditTailFromHead(f, key, n) ==
  LET e == AuditEntries(f, key)
  IN IF e.err # "none" THEN e
     ELSE LET es == e.ret.entries
              k == IF n < Len(es) THEN n ELSE Len(es)
          IN [e EXCEPT !.ret = RetEntries(SubSeq(es, 1, k))]

\* VaultAuditLog.tail(n): the last n entries, all of them when there are fewer.
AuditTail(f, key, n) ==
  LET e == AuditEntries(f, key)
  IN IF e.err # "none" THEN e
     ELSE LET es == e.ret.entries
              k == IF n < Len(es) THEN n ELSE Len(es)
          IN [e EXCEPT !.ret = RetEntries(SubSeq(es, Len(es) - k + 1, Len(es)))]

\* EncryptedStorage._log(op, id, meta) after an operation with outcome o: the
\* log file afterwards. Nothing is logged for an operation that raised or
\* found nothing, and whatever log() raises is swallowed.
LoggedFile(f, key, o, op, id, meta, now, fail) ==
  IF o.err = "none" /\ o.ret \notin {NoRet, RetBool(FALSE)}
  THEN AuditLog(f, key, op, id, meta, now, fail, FALSE).f
  ELSE f

\* The log file of the vault h.
Log(h) == files[LogPath(stores[h].path)]
\* The store h, its file, its directory and its log file take the outcome o of
\* a logged call and the log file lf.
LoggedCommit(h, o, call, lf) ==
  /\ stores' = [stores EXCEPT ![h] = o.s]
  /\ files' = [files EXCEPT ![stores[h].path] = o.f, ![LogPath(stores[h].path)] = lf]
  /\ temps' = [temps EXCEPT ![stores[h].path] = o.t]
  /\ last' = call
  /\ faults' = IF o.fault THEN faults + 1 ELSE faults
  /\ UNCHANGED layer

\* The log has room for one more line.
LogRoom(h) == Len(LogLines(Log(h))) < MaxLog

\* vault.insert(doc) with logging enabled
LoggedInsertOn(h, doc, uuid, fail, logfail) ==
  /\ Open(h) /\ layer = "enc" /\ LogRoom(h)
  /\ (CallId(doc, uuid) = uuid => uuid \in FreshUuids(stores[h])) /\ fail \in Faults
  /\ LET o == EncInsertOp(stores[h], File(h), Temps(h), doc, uuid, fail)
         id == CallId(doc, uuid)
     IN LoggedCommit(h, o, Call("insert", h, id, o.err, o.ret, o.writes),
                     LoggedFile(Log(h), stores[h].key, o, "insert", id, EmptyDict, 1, logfail))

\* vault.get(id) with logging enabled
LoggedGetOn(h, id, logfail) ==
  /\ Open(h) /\ layer = "enc" /\ LogRoom(h)
  /\ LET g == EncGetOp(stores[h], id)
         o == Outcome(stores[h], File(h), Temps(h), g.err, g.ret)
     IN LoggedCommit(h, o, Call("get", h, id, o.err, o.ret, 0),
                     LoggedFile(Log(h), stores[h].key, o, "get", id, EmptyDict, 1, logfail))

\* vault.update(id, updates) with logging enabled: the partial is the
\* entry's meta.
LoggedUpdateOn(h, id, updates, fail, logfail) ==
  /\ Open(h) /\ layer = "enc" /\ LogRoom(h) /\ fail \in Faults
  /\ LET o == EncUpdateOp(stores[h], File(h), Temps(h), id, updates, fail)
     IN LoggedCommit(h, o, Call("update", h, id, o.err, o.ret, o.writes),
                     LoggedFile(Log(h), stores[h].key, o, "update", id, updates, 1, logfail))

\* vault.delete(id) with logging enabled
LoggedDeleteOn(h, id, fail, logfail) ==
  /\ Open(h) /\ layer = "enc" /\ LogRoom(h) /\ fail \in Faults
  /\ LET o == EncDeleteOp(stores[h], File(h), Temps(h), id, fail)
     IN LoggedCommit(h, o, Call("delete", h, id, o.err, o.ret, o.writes),
                     LoggedFile(Log(h), stores[h].key, o, "delete", id, EmptyDict, 1, logfail))

\* A log() call as `last` records it: the entry's op and id, the error that
\* left log() and whether the error hook was called.
LogCall(h, op, id, err, hooked) ==
  [op |-> "log", h |-> h, id |-> id, err |-> err, ret |-> NoRet, writes |-> 0,
   entry |-> op, hook |-> hooked]

\* VaultAuditLog(log path of h, key of h, on_log_error).log(op, id)
AuditLogOn(h, op, id, fail, hook) ==
  /\ Open(h) /\ LogRoom(h) /\ fail \in {"none", "io"}
  /\ LET lg == AuditLog(Log(h), stores[h].key, op, id, EmptyDict, 1, fail, hook)
     IN /\ files' = [files EXCEPT ![LogPath(stores[h].path)] = lg.f]
        /\ last' = LogCall(h, op, id, lg.err, lg.hooked)
  /\ UNCHANGED <<temps, stores, layer, faults>>

\* VaultAuditLog(log path of h, key).entries()
AuditEntriesOn(h, key) ==
  /\ Open(h)
  /\ LET e == AuditEntries(Log(h), key)
     IN last' = Call("entries", h, NoId, e.err, e.ret, 0)
  /\ UNCHANGED <<files, temps, stores, layer, faults>>

\* A tail(n) call as `last` records it: n, the error raised and the entries
\* returned.
TailCall(h, n, err, ret) ==
  [op |-> "tail", h |-> h, id |-> NoId, err |-> err, ret |-> ret, writes |-> 0, n |-> n]

\* VaultAuditLog(log path of h, key of h).tail(n)
AuditTailOn(h, n) ==
  /\ Open(h)
  /\ LET e == AuditTail(Log(h), stores[h].key, n)
     IN last' = TailCall(h, n, e.err, e.ret)
  /\ UNCHANGED <<files, temps, stores, layer, faults>>

\* Another program appends a line that is no token to the log file.
LogCorruptOn(path) ==
  /\ Len(LogLines(files[LogPath(path)])) < MaxLog
  /\ files' = [files EXCEPT ![LogPath(path)] = LogFile(Append(LogLines(@), CorruptLine))]
  /\ last' = Call("tamper", "h1", NoId, "none", NoRet, 0)
  /\ UNCHANGED <<temps, stores, layer, faults>>

\* One EncryptedStorage with logging enabled on path p1; neither the vault
\* file nor the log file exists.
InitLog ==
  /\ layer = "enc"
  /\ files = [p \in Paths \cup LogPaths |-> Absent]
  /\ stores = [h \in Handles |->
       IF h = "h1" THEN Load([NewStore("p1") EXCEPT !.key = CallerKey], Absent, "", 1).s
       ELSE Closed]
  /\ temps = [p \in Paths \cup LogPaths |-> 0]
  /\ faults = 0
  /\ last = Call("init", "h1", NoId, "none", NoRet, 0)

\* The vault is used with logging enabled, its log is written to directly,
\* read back under its key and under another one, and corrupted from outside.
NextLog ==
  \/ LogCorruptOn("p1")
  \/ \E h \in Handles, logfail \in LogFailures :
       \/ \E doc \in LogDocs : LoggedInsertOn(h, doc, "u1", "none", logfail)
       \/ LoggedGetOn(h, "a", logfail)
       \/ \E updates \in VaultPartials : LoggedUpdateOn(h, "a", updates, "none", logfail)
       \/ LoggedDeleteOn(h, "a", "none", logfail)
  \/ \E h \in Handles :
       \/ \E fail \in {"none", "io"}, hook \in BOOLEAN : AuditLogOn(h, "insert", "abc123", fail, hook)
       \/ \E key \in {CallerKey, WrongKey} : AuditEntriesOn(h, key)
       \/ \E n \in 1..MaxTail : AuditTailOn(h, n)

SpecLog == InitLog /\ [][NextLog]_vars

\* ------------------------------------------------------------------ claims
\* What list() would return on store h if it were called now.
ListView(h) ==
  IF layer = "doc"
  THEN StoreList(stores[h], File(h), Temps(h), 1).ret
  ELSE EncListOp(stores[h], File(h), Temps(h), TRUE, 1).ret

\* C1: a DocumentStorage mutation (insert, update, delete) whose rewrite
\* fails raises StorageError and leaves the content of the vault file as it
\* was before the call.
C1_FailedRewriteKeepsFile ==
  [][(layer = "doc" /\ faults' # faults)
       => (last'.op \in {"insert", "update", "delete"}
           /\ last'.err = "StorageError" /\ files' = files)]_vars

\* A failed rewrite of a store whose file already holds documents.
W1_FailedRewriteOverWrittenFile ==
  /\ layer = "doc" /\ last.err = "StorageError" /\ last.op = "update"
  /\ DOMAIN FileDocs("p1") # {}
  /\ stores["h1"].data # FileDocs("p1")

\* C2: inserting a record whose `_id` is already present raises
\* DuplicateIDError and changes neither the in-memory map nor the vault file,
\* so list() returns the same records before and after, at both layers.
C2_DuplicateInsertRejected ==
  [][(last'.op = "insert" /\ last'.id \in DOMAIN stores[last'.h].data)
       => (/\ last'.err = "DuplicateIDError"
           /\ stores' = stores /\ files' = files
           /\ \A h \in Handles : Open(h) => ListView(h)' = ListView(h))]_vars

\* A duplicate insert was rejected on a vault that holds the id.
W2_DuplicateRejected ==
  /\ last.op = "insert" /\ last.err = "DuplicateIDError"
  /\ last.id \in DOMAIN stores["h1"].data
  /\ last.id \in DOMAIN FileDocs("p1")

\* C3: the vault file, once written, is one complete JSON object with exactly
\* the top-level keys `_meta` and `documents`; no partially written file is
\* ever at the vault path.
C3_FileIsCompleteObject ==
  \A p \in Paths :
    \/ files[p].kind \in {"absent", "empty"}
    \/ files[p].kind = "json" /\ DOMAIN files[p].obj = {"_meta", "documents"}

\* A rewrite has failed after the file was written, and a later call succeeded.
W3_WrittenFileAfterFault ==
  /\ files["p1"].kind = "json" /\ faults > 0
  /\ last.err = "none" /\ last.writes = 1

\* Record id of store h is in the vault file exactly as it is in memory.
Persisted(h, id) ==
  /\ id \in DOMAIN stores[h].data
  /\ id \in DOMAIN FileDocs(stores[h].path)
  /\ FileDocs(stores[h].path)[id] = stores[h].data[id]

\* get(id) on the EncryptedStorage h returns the document d.
Gets(h, id, d) == EncGetOp(stores[h], id) = [err |-> "none", ret |-> RetDoc(d)]

\* C4: EncryptedStorage.insert(d) returns an id X such that get(X) returns the
\* fields of d plus `_id` = X, and get(X) keeps returning that document over
\* every call that is not an update or a delete of X.
C4_InsertThenGet ==
  [][/\ (layer = "enc" /\ last'.op = "insert" /\ last'.err = "none") =>
          \A h \in {last'.h}, doc \in Docs, uuid \in Uuids, fail \in Failures :
            EncInsertOn(h, doc, uuid, fail)
              => LET X == IdOrUuid(doc, uuid)
                 IN /\ last'.ret = RetId(X)
                    /\ Gets(h, X, DictSet(doc, "_id", Str(X)))'
                    /\ Persisted(h, X)'
     /\ layer = "enc" =>
          \A h \in Handles, X \in TargetIds :
            (/\ Open(h) /\ Persisted(h, X)
             /\ EncGetOp(stores[h], X).ret # NoRet
             /\ ~(last'.op \in {"update", "delete"} /\ last'.id = X))
              => (Persisted(h, X)' /\ EncGetOp(stores[h], X)' = EncGetOp(stores[h], X))
    ]_vars

\* An insert of a document without `_id` returned a generated id, and the
\* stored document carries the caller's field.
W4_InsertedWithGeneratedId ==
  /\ layer = "enc" /\ last.op = "insert" /\ last.err = "none"
  /\ last.ret = RetId("u1")
  /\ Gets("h1", "u1", ("_id" :> Str("u1")) @@ ("n" :> Str("x")))

\* C5: every stored record's `data` decrypts under the vault's key to a
\* document whose `_id` equals the record's plaintext `_id` and the key it is
\* stored under, also after update(id, partial) where partial names `_id`
\* (stated for the behaviours in which no rewrite has failed).
C5_InnerIdMatchesRecordId ==
  (layer = "enc" /\ faults = 0) =>
    \A h \in Handles : Open(h) =>
      \A k \in DOMAIN stores[h].data :
        LET raw == stores[h].data[k]
        IN /\ Readable(raw, stores[h].key)
           /\ raw["_id"] = Str(k)
           /\ decrypt_document(raw["data"], stores[h].key)["_id"] = raw["_id"]

\* C6: no two documents returned by list() carry the same `_id`, at both
\* layers, also after an update whose partial names `_id` (stated for the
\* behaviours in which no rewrite has failed).
C6_ListIdsDistinct ==
  (last.op = "list" /\ last.err = "none" /\ faults = 0) =>
    \A k1, k2 \in DOMAIN last.ret.docs :
      k1 # k2 => last.ret.docs[k1]["_id"] # last.ret.docs[k2]["_id"]

\* C7: every record in the vault file written through EncryptedStorage
\* consists of exactly the plaintext `_id` and the ciphertext `data`; no other
\* plaintext field of a document is in the file.
C7_FileRecordsAreIdAndCiphertext ==
  layer = "enc" =>
    \A p \in Paths : \A k \in DOMAIN FileDocs(p) :
      LET raw == FileDocs(p)[k]
      IN /\ DOMAIN raw = {"_id", "data"}
         /\ raw["_id"] = Str(k)
         /\ raw["data"].t = "ct"

\* An update of a stored document with a user field was written to the file.
W7_UpdateWritten ==
  /\ layer = "enc" /\ last.op = "update" /\ last.ret = RetBool(TRUE)
  /\ "a" \in DOMAIN FileDocs("p1")
  /\ "n" \in DOMAIN decrypt_document(FileDocs("p1")["a"]["data"], CallerKey)

\* What an update call must have produced: o is its outcome on the store s
\* with the file f, before and after are what get(id) returns around it.
UpdatePost(s, f, id, updates, o, before, after) ==
  LET present == id \in DOMAIN s.data
  IN /\ o.ret = RetBool(FALSE) => ~present
     /\ o.ret = RetBool(TRUE) => present
     /\ ~present => (/\ o.err = "none" /\ o.ret = RetBool(FALSE)
                    /\ o.s = s /\ o.f = f)
     /\ present =>
          /\ after = RetDoc(DictUpdate(before.doc, updates))
          /\ \/ o.fault
             \/ /\ o.ret = RetBool(TRUE)
                /\ o.f.kind = "json"
                /\ id \in DOMAIN o.f.obj["documents"]
                /\ o.f.obj["documents"][id] = o.s.data[id]

\* C10: in every state a store reaches, update(id, partial), at both layers,
\* returns True exactly when id is present (a failed rewrite raises instead,
\* see C1): get(id) afterwards is the previous document shallow-overwritten by
\* partial and the change is in the vault file; when id is absent it returns
\* False without raising and changes neither memory nor file.
C10_UpdateMerges ==
  \A h \in Handles, id \in TargetIds, updates \in Partials, fail \in Faults :
    Open(h) =>
      LET s == stores[h]
          d == StoreUpdate(s, File(h), Temps(h), id, updates, fail)
          e == EncUpdateOp(s, File(h), Temps(h), id, updates, fail)
      IN /\ layer = "doc" =>
              UpdatePost(s, File(h), id, updates, d, StoreGet(s, id), StoreGet(d.s, id))
         /\ layer = "enc" =>
              UpdatePost(s, File(h), id, updates, e,
                         EncGetOp(s, id).ret, EncGetOp(e.s, id).ret)

\* An update overwrote one field of a stored document and kept the other.
W10_UpdatedKeepingOtherField ==
  /\ last.op = "update" /\ last.ret = RetBool(TRUE) /\ last.id = "a"
  /\ layer = "enc"
  /\ Gets("h1", "a", ("_id" :> Str("a")) @@ ("n" :> Str("y")))
  /\ Persisted("h1", "a")

\* C8: with two vaults opened from the same passphrase, a raw record of vault
\* A copied from A's file into vault B's document map cannot be read in B:
\* B.get(id) raises CryptoError and returns nothing.
C8_CopiedRecordUnreadable ==
  \A A, B \in Handles :
    (/\ Open(A) /\ Open(B) /\ stores[A].path # stores[B].path
     /\ stores[A].key.pass = stores[B].key.pass)
      => \A id \in DOMAIN FileDocs(stores[A].path) \cap DOMAIN stores[B].data :
           (/\ Readable(FileDocs(stores[A].path)[id], stores[A].key)
            /\ stores[B].data[id] = FileDocs(stores[A].path)[id])
             => EncGetOp(stores[B], id) = [err |-> "CryptoError", ret |-> NoRet]

\* A record that vault h1 can read was copied into vault h2, opened from the
\* same passphrase on another path.
W8_RecordCopiedAcrossVaults ==
  /\ last.op = "copy" /\ last.err = "none" /\ last.h = "h2" /\ last.id = "a"
  /\ Open("h1") /\ stores["h1"].path # stores["h2"].path
  /\ stores["h1"].key.pass = stores["h2"].key.pass
  /\ EncGetOp(stores["h1"], "a").ret # NoRet
  /\ stores["h2"].data["a"] = FileDocs(stores["h1"].path)["a"]

\* C9: EncryptedStorage.open on a path that does not exist generates a salt
\* and records it in the file's `_meta`; a later open of the path with the same
\* passphrase derives the same key, so get through the new handle returns every
\* document inserted (and persisted) through the earlier handle unchanged.
C9_ReopenDerivesSameKey ==
  (last.op = "open" /\ last.err = "none") =>
    LET h == last.h
        p == stores[h].path
    IN /\ files[p].kind = "json"
       /\ "salt" \in DOMAIN files[p].obj["_meta"]
       /\ IsB64(files[p].obj["_meta"]["salt"])
       /\ stores[h].key.salt = B64Decode(files[p].obj["_meta"]["salt"])
       /\ \A g \in Handles \ {h} :
            (Open(g) /\ stores[g].path = p /\ stores[g].key.pass = stores[h].key.pass)
              => /\ stores[g].key = stores[h].key
                 /\ \A id \in TargetIds :
                      Persisted(g, id) => EncGetOp(stores[h], id) = EncGetOp(stores[g], id)

\* The vault was reopened with the same passphrase after a document was
\* inserted through the first handle, and the new handle returns it.
W9_ReopenedAndRead ==
  /\ last.op = "open" /\ last.err = "none" /\ last.h = "h2" /\ last.writes = 0
  /\ Open("h1") /\ stores["h1"].path = stores["h2"].path
  /\ stores["h1"].key.pass = stores["h2"].key.pass
  /\ Persisted("h1", "a")
  /\ Gets("h2", "a", ("_id" :> Str("a")) @@ ("n" :> Str("x")))

\* delete(id) on the store h, as C11 describes it; getAfter is what get(id)
\* returns after the call.
DeletePost(h, id, getAfter) ==
  LET present == id \in DOMAIN stores[h].data
  IN /\ last'.ret = RetBool(TRUE) => present
     /\ last'.ret = RetBool(FALSE) => ~present
     /\ ~present => (/\ last'.err = "none" /\ last'.ret = RetBool(FALSE)
                    /\ stores' = stores /\ files' = files)
     /\ present =>
          /\ getAfter = NoRet
          /\ id \notin DOMAIN stores'[h].data
          /\ \/ faults' # faults
             \/ /\ last'.ret = RetBool(TRUE) /\ last'.err = "none"
                /\ id \notin DOMAIN FileDocs(stores[h].path)'

\* C11: delete(id), at both layers, returns True exactly when id was present
\* (a failed rewrite raises instead, see C1): get(id) afterwards returns the
\* not-found value and id is absent from the vault file; when id was absent it
\* returns False and changes neither memory nor file.
C11_DeleteRemoves ==
  [][last'.op = "delete" =>
       \A h \in {last'.h}, id \in {last'.id}, fail \in Failures :
         /\ DocDeleteOn(h, id, fail) => DeletePost(h, id, StoreGet(stores[h], id)')
         /\ EncDeleteOn(h, id, fail)
              => (/\ DeletePost(h, id, EncGetOp(stores[h], id).ret')
                  /\ EncGetOp(stores[h], id).err' = "none")
    ]_vars

\* A document that was in the vault file has been deleted through
\* EncryptedStorage and is in neither memory nor file.
W11_DeletedFromFile ==
  /\ layer = "enc" /\ last.op = "delete" /\ last.ret = RetBool(TRUE) /\ last.id = "a"
  /\ "a" \notin DOMAIN stores["h1"].data
  /\ "a" \notin DOMAIN FileDocs("p1")
  /\ DOMAIN FileDocs("p1") # {}

\* C12: a non-mapping document passed to insert, a non-mapping partial passed
\* to update and a non-mapping filter passed to find each raise
\* InvalidDocumentError; no rewrite is started, no record is reloaded, and the
\* store objects, the vault files and their directories are as before.
C12_NonMappingRejected ==
  [][\A h \in Handles, bad \in NonMappings, id \in TargetIds, uuid \in Uuids :
       (\/ DocInsertOn(h, bad, uuid, "none") \/ EncInsertOn(h, bad, uuid, "none")
        \/ DocUpdateOn(h, id, bad, "none") \/ EncUpdateOn(h, id, bad, "none")
        \/ EncFindOn(h, bad, 1))
         => (/\ last'.err = "InvalidDocumentError" /\ last'.ret = NoRet
             /\ last'.writes = 0
             /\ stores' = stores /\ files' = files /\ temps' = temps)]_vars

\* A non-mapping partial was passed to update for a document that is stored.
W12_InvalidPartialForStoredId ==
  /\ last.op = "update" /\ last.err = "InvalidDocumentError"
  /\ last.id \in DOMAIN stores["h1"].data
  /\ last.id \in DOMAIN FileDocs("p1")

\* C13: EncryptedStorage.get(id) returns the not-found value when id is absent
\* and raises CryptoError when the stored record lacks `data` or its ciphertext
\* does not decrypt under the vault's key; otherwise it returns the decrypted
\* document, never a partial or undecrypted one; it changes no state.
C13_GetFoundOrCryptoError ==
  [][\A h \in Handles, id \in TargetIds :
       EncGetOn(h, id) =>
         LET present == id \in DOMAIN stores[h].data
             raw == stores[h].data[id]
         IN /\ ~present => (last'.err = "none" /\ last'.ret = NoRet)
            /\ (present /\ ~Readable(raw, stores[h].key))
                 => (last'.err = "CryptoError" /\ last'.ret = NoRet)
            /\ (present /\ Readable(raw, stores[h].key))
                 => (/\ last'.err = "none"
                     /\ last'.ret = RetDoc(decrypt_document(raw["data"], stores[h].key)))
            /\ UNCHANGED <<files, temps, stores>>]_vars

\* C14: over the records stored in the vault file, list(strict=True) raises
\* CryptoError if at least one record lacks `data` or fails decryption and
\* otherwise returns every decrypted document; list(strict=False) does not
\* raise for such records and returns exactly the decrypted documents of the
\* valid records.
C14_ListStrictOrSkip ==
  [][\A h \in Handles, strict \in BOOLEAN :
       EncListOn(h, strict, 1) =>
         LET raw_docs == FileDocs(stores[h].path)
             key == stores[h].key
             valid == {k \in DOMAIN raw_docs :
                         /\ "data" \in DOMAIN raw_docs[k]
                         /\ CanDecrypt(raw_docs[k]["data"], key)}
             decrypted == [k \in valid |-> decrypt_document(raw_docs[k]["data"], key)]
         IN /\ (strict /\ valid # DOMAIN raw_docs)
                 => (last'.err = "CryptoError" /\ last'.ret = NoRet)
            /\ (~strict \/ valid = DOMAIN raw_docs)
                 => (last'.err = "none" /\ last'.ret = RetDocs(decrypted))]_vars

\* list(strict=False) returned exactly the one valid document of a vault file
\* that holds a valid and a damaged record.
W14_ListedTheValidRecordOnly ==
  /\ last.op = "list" /\ last.err = "none"
  /\ DOMAIN FileDocs("p1") = {"a", "u1"}
  /\ DOMAIN last.ret.docs = {"a"}
  /\ ~Readable(FileDocs("p1")["u1"], stores["h1"].key)

\* C15: EncryptedStorage.find(filter) returns exactly the documents of
\* list(strict=True) in which every filter key is present with an equal value
\* of the same type: a document that lacks a filter key never matches (also
\* when the filter value is null), a string never matches a number, and the
\* empty filter returns every document.
C15_FindExactMatch ==
  [][\A h \in Handles, filter \in Filters :
       EncFindOn(h, filter, 1) =>
         LET all_docs == EncListOp(stores[h], File(h), Temps(h), TRUE, 1).ret.docs
             matching == {i \in DOMAIN all_docs :
                            \A k \in DOMAIN filter :
                              k \in DOMAIN all_docs[i] /\ all_docs[i][k] = filter[k]}
         IN /\ last'.err = "none"
            /\ last'.ret = RetDocs([i \in matching |-> all_docs[i]])]_vars

\* C16: writing to `vault_version` or `created_at` through the metadata view,
\* by item assignment or by update(), raises RuntimeError and leaves the
\* metadata unchanged, while writes to any other key succeed.
C16_ProtectedKeysRejectWrites ==
  [][\A h \in Handles :
       /\ \A key \in MetaKeys, value \in MetaVals :
            MetaSetItemOn(h, key, value) =>
              IF key \in ProtectedKeys
              THEN last'.err = "RuntimeError" /\ stores' = stores
              ELSE /\ last'.err = "none"
                   /\ stores'[h].meta = DictSet(stores[h].meta, key, value)
       /\ \A u \in MetaUpdates :
            MetaUpdateOn(h, u) =>
              IF \E key \in DOMAIN u : key \in ProtectedKeys
              THEN last'.err = "RuntimeError" /\ stores' = stores
              ELSE /\ last'.err = "none"
                   /\ stores'[h].meta = DictUpdate(stores[h].meta, u)]_vars

\* update() was refused on metadata that holds both protected keys, and wrote
\* no key.
W16_UpdateRefused ==
  /\ last.op = "meta.update" /\ last.err = "RuntimeError"
  /\ ProtectedKeys \subseteq DOMAIN stores["h1"].meta
  /\ "label" \notin DOMAIN stores["h1"].meta

\* C17: once a store is constructed, the values of `vault_version` and
\* `created_at` in its metadata never change and are never removed, under any
\* sequence of metadata-view operations (item assignment, update, item
\* deletion, pop, setdefault, clear).
C17_ProtectedKeysImmutable ==
  [][\A h \in Handles : Open(h) =>
       \A key \in ProtectedKeys :
         key \in DOMAIN stores[h].meta =>
           /\ key \in DOMAIN stores'[h].meta
           /\ stores'[h].meta[key] = stores[h].meta[key]]_vars

\* The file content f is a JSON object holding both `_meta` and `documents`.
IsVaultObject(f) ==
  /\ f.kind = "json" /\ IsDict(f.obj)
  /\ "_meta" \in DOMAIN f.obj /\ "documents" \in DOMAIN f.obj

\* C18: constructing a DocumentStorage on a missing or empty (whitespace-only)
\* file yields a fresh store with initialized metadata and no documents; on a
\* non-empty file whose content is not a JSON object containing both `_meta`
\* and `documents` (invalid JSON, a legacy flat map, a JSON value that is not
\* an object) it raises StorageError.
C18_ConstructFreshOrStorageError ==
  [][\A h \in Handles, path \in Paths, app_name \in {"", "app"} :
       ConstructOn(h, path, app_name, 1) =>
         LET f == files[path]
         IN /\ f.kind \in {"absent", "empty", "blank"} =>
                 /\ last'.err = "none" /\ Open(h)'
                 /\ stores'[h].meta = InitializeMeta(app_name, 1)
                 /\ stores'[h].data = EmptyDict
            /\ (f.kind \notin {"absent", "empty", "blank"} /\ ~IsVaultObject(f)) =>
                 (last'.err = "StorageError" /\ ~Open(h)')]_vars

\* C19: EncryptedStorage.open raises ValueError for an empty passphrase and
\* for a path that does not end in `.vault`, before touching the file system:
\* no file is created or modified, no handle is returned, and the error is not
\* wrapped as CryptoError.
C19_OpenValidatesFirst ==
  [][\A h \in Handles, path \in Paths \cup PlainPaths, passphrase \in {"", "pw"}, salt \in Salts :
       (OpenOn(h, path, passphrase, salt, 1) /\ (passphrase = "" \/ path \in PlainPaths)) =>
         /\ last'.err = "ValueError"
         /\ files' = files /\ temps' = temps
         /\ stores' = stores]_vars

\* open() was refused with ValueError while no file exists at the path that
\* lacks the extension and the file at p1 is one open() could not have loaded.
W19_OpenRefusedNothingCreated ==
  /\ last.op = "open" /\ last.err = "ValueError"
  /\ files["notes.json"] = Absent
  /\ files["p1"] = PartialFile

\* The vault file f cannot be opened: it is empty, is not JSON, is JSON without
\* `_meta` and `documents`, has no `salt` in `_meta`, or a salt that is not
\* base64.
Unopenable(f) ==
  \/ f.kind \in {"empty", "blank", "partial"}
  \/ f.kind = "json" /\ ~IsVaultObject(f)
  \/ /\ IsVaultObject(f)
     /\ \/ "salt" \notin DOMAIN f.obj["_meta"]
        \/ ~IsB64(f.obj["_meta"]["salt"])

\* C20: EncryptedStorage.open (with a passphrase and a .vault path) on an
\* existing file that is empty, is not valid JSON, has no `salt` in `_meta` or
\* has a salt that is not valid base64 raises CryptoError, returns no handle
\* and leaves the file unchanged; on any existing file, open leaves the file
\* as it is (it never initializes a new vault over it).
C20_OpenFailsOnBadVault ==
  [][\A h \in Handles, path \in Paths, salt \in Salts :
       (OpenOn(h, path, "pw", salt, 1) /\ files[path].kind # "absent") =>
         /\ files' = files /\ temps' = temps
         /\ Unopenable(files[path]) =>
              (last'.err = "CryptoError" /\ ~Open(h)')]_vars

\* open() raised CryptoError on the vault whose salt is not base64, while the
\* other path holds a vault that open() initialized.
W20_OpenRaisedOnBadSalt ==
  /\ last.op = "open" /\ last.err = "CryptoError"
  /\ IsVaultObject(files["p1"])
  /\ "salt" \in DOMAIN files["p1"].obj["_meta"]
  /\ ~IsB64(files["p1"].obj["_meta"]["salt"])
  /\ IsVaultObject(files["p2"])

\* C25: for every document d (a mapping) and every key k,
\* decrypt_document(encrypt_document(d, k), k) equals d: decrypting the token
\* of the last encrypt call under the key it was made with raises nothing and
\* returns the document that was encrypted.
C25_EncryptDecryptRoundTrip ==
  [][\A passphrase \in Passphrases, salt \in Salts :
       ( /\ last.op = "encrypt" /\ last.err = "none"
         /\ DecryptOn(last.ret.token, passphrase, salt)
         /\ generate_key(passphrase, salt) = last.ret.key ) =>
           /\ last'.err = "none"
           /\ last'.ret = RetDoc(last.ret.arg)]_vars

\* The document with a nested mapping came back from decryption.
W25_NestedDocumentDecrypted ==
  /\ last.op = "decrypt" /\ last.err = "none"
  /\ "meta" \in DOMAIN last.ret.doc
  /\ last.ret.doc["meta"] = ("n" :> Num(1))

\* C26: for one passphrase and two different salts the derived keys differ,
\* and a token made under one derived key never decrypts under a different
\* derived key: decryption raises CryptoError and returns no document.
C26_OtherKeyNeverDecrypts ==
  [][\A passphrase \in Passphrases, salt \in Salts :
       /\ \A salt2 \in Salts \ {salt} :
            generate_key(passphrase, salt) # generate_key(passphrase, salt2)
       /\ ( /\ last.op = "encrypt" /\ last.err = "none"
            /\ DecryptOn(last.ret.token, passphrase, salt)
            /\ generate_key(passphrase, salt) # last.ret.key ) =>
              (last'.err = "CryptoError" /\ last'.ret = NoRet)]_vars

\* Decryption of a token that an encrypt call produced was refused.
W26_DecryptRefused ==
  /\ last.op = "decrypt" /\ last.err = "CryptoError"
  /\ last.arg # NotAToken /\ last.arg.t = "ct"

\* The lines of the log file of the vault at p1, and what entries() makes of
\* them under the vault's key.
LogNow == LogLines(files[LogPath("p1")])
EntriesNow == AuditEntries(files[LogPath("p1")], CallerKey)
\* Sequence s is a prefix of sequence t.
IsPrefix(s, t) == Len(s) <= Len(t) /\ SubSeq(t, 1, Len(s)) = s

\* C21: when writing the audit entry fails during a logged EncryptedStorage
\* operation, the operation still returns what it returns without logging and
\* its effect on the vault is persisted (an inserted document is in the file
\* and get returns it); VaultAuditLog.log itself raises nothing on an I/O
\* failure, writes nothing, and calls the error hook exactly when one is given.
C21_LogFailureNeverBreaksOperation ==
  [][\A h \in {"h1"} :
       /\ \A logfail \in LogFailures \ {"none"} :
            /\ \A doc \in LogDocs :
                 LoggedInsertOn(h, doc, "u1", "none", logfail) =>
                   LET o == EncInsertOp(stores[h], File(h), Temps(h), doc, "u1", "none")
                   IN /\ last'.err = o.err /\ last'.ret = o.ret
                      /\ stores'[h] = o.s /\ files'["p1"] = o.f
                      /\ LogNow' = LogNow
                      /\ o.err = "none" =>
                           /\ last'.ret = RetId("a")
                           /\ "a" \in DOMAIN FileDocs("p1")'
                           /\ EncGetOp(stores'[h], "a").ret = RetDoc(doc)
            /\ LoggedGetOn(h, "a", logfail) =>
                 /\ last'.err = EncGetOp(stores[h], "a").err
                 /\ last'.ret = EncGetOp(stores[h], "a").ret
                 /\ stores' = stores /\ files' = files
            /\ \A updates \in VaultPartials :
                 LoggedUpdateOn(h, "a", updates, "none", logfail) =>
                   LET o == EncUpdateOp(stores[h], File(h), Temps(h), "a", updates, "none")
                   IN /\ last'.err = o.err /\ last'.ret = o.ret
                      /\ stores'[h] = o.s /\ files'["p1"] = o.f
                      /\ LogNow' = LogNow
            /\ LoggedDeleteOn(h, "a", "none", logfail) =>
                 LET o == EncDeleteOp(stores[h], File(h), Temps(h), "a", "none")
                 IN /\ last'.err = o.err /\ last'.ret = o.ret
                    /\ stores'[h] = o.s /\ files'["p1"] = o.f
                    /\ LogNow' = LogNow
                    /\ o.ret = RetBool(TRUE) => "a" \notin DOMAIN FileDocs("p1")'
       /\ \A hook \in BOOLEAN :
            AuditLogOn(h, "insert", "abc123", "io", hook) =>
              /\ last'.err = "none" /\ last'.hook = hook
              /\ files' = files]_vars

\* An insert returned its id and its document is in the vault file although
\* no entry could be written: there is still no log file.
W21_InsertedWithoutLog ==
  /\ last.op = "insert" /\ last.err = "none" /\ last.ret = RetId("a")
  /\ "a" \in DOMAIN FileDocs("p1")
  /\ files[LogPath("p1")] = Absent

\* C22: with logging enabled, every logged operation puts its own entry at
\* the end of entries() and leaves the earlier entries as they were, so that
\* after n logged operations entries() has length n in the order of the
\* operations; and tail(k) returns the last min(k, n) elements of entries()
\* in the same order.
C22_EntriesInOrderAndTail ==
  [][\A h \in {"h1"} :
       LET es == EntriesNow.ret.entries
           Logged(op, id, meta) ==
             /\ EntriesNow'.err = "none"
             /\ EntriesNow'.ret.entries = Append(es, AuditEntry(op, id, meta, 1))
       IN EntriesNow.err = "none" =>
            /\ \A doc \in LogDocs :
                 (LoggedInsertOn(h, doc, "u1", "none", "none") /\ last'.err = "none") =>
                   Logged("insert", "a", EmptyDict)
            /\ (LoggedGetOn(h, "a", "none") /\ last'.err = "none" /\ last'.ret # NoRet) =>
                 Logged("get", "a", EmptyDict)
            /\ \A updates \in VaultPartials :
                 (LoggedUpdateOn(h, "a", updates, "none", "none") /\ last'.ret = RetBool(TRUE)) =>
                   Logged("update", "a", updates)
            /\ (LoggedDeleteOn(h, "a", "none", "none") /\ last'.ret = RetBool(TRUE)) =>
                 Logged("delete", "a", EmptyDict)
            /\ \A n \in 1..MaxTail :
                 AuditTailOn(h, n) =>
                   LET k == IF n < Len(es) THEN n ELSE Len(es)
                       r == last'.ret.entries
                   IN /\ last'.err = "none"
                      /\ Len(r) = k
                      /\ \A i \in 1..k : r[i] = es[Len(es) - k + i]]_vars

\* tail(2) returned two entries of a log of three, the last of them a delete.
W22_TailOfLongerLog ==
  /\ last.op = "tail" /\ last.err = "none" /\ last.n = 2
  /\ Len(LogNow) = 3
  /\ Len(last.ret.entries) = 2
  /\ last.ret.entries[2]["op"] = Str("delete")

\* C23: the audit log is append-only: each successful log() call adds exactly
\* one line to the log file, and no call of the log or of the vault changes or
\* removes an existing line, so entries() before a call is a prefix of
\* entries() after it.
C23_LogAppendOnly ==
  [][/\ last'.op # "tamper" =>
          /\ IsPrefix(LogNow, LogNow')
          /\ Len(LogNow') <= Len(LogNow) + 1
          /\ EntriesNow.err = "none" =>
               /\ EntriesNow'.err = "none"
               /\ IsPrefix(EntriesNow.ret.entries, EntriesNow'.ret.entries)
     /\ \A hook \in BOOLEAN :
          AuditLogOn("h1", "insert", "abc123", "none", hook) =>
            /\ Len(LogNow') = Len(LogNow) + 1
            /\ CanDecrypt(LogNow'[Len(LogNow')], CallerKey)]_vars

\* log() added a third line to a log whose first line a vault operation wrote.
W23_ThirdLineAppended ==
  /\ last.op = "log" /\ last.err = "none" /\ ~last.hook
  /\ Len(LogNow) = 3
  /\ EntriesNow.err = "none"
  /\ EntriesNow.ret.entries[1]["_id"] = Str("a")
  /\ EntriesNow.ret.entries[3]["_id"] = Str("abc123")

\* C24: VaultAuditLog.entries() returns an empty list when the log file does
\* not exist, and raises CryptoError for the whole call, returning no entries
\* at all, if any single line fails to decrypt: a line that is no token, or a
\* token made under another key than the one entries() is read with.
C24_EntriesAllOrNothing ==
  [][\A key \in {CallerKey, WrongKey} :
       AuditEntriesOn("h1", key) =>
         /\ files[LogPath("p1")] = Absent =>
              (last'.err = "none" /\ last'.ret = RetEntries(<<>>))
         /\ (\E i \in 1..Len(LogNow) :
               \/ LogNow[i] = CorruptLine
               \/ LogNow[i].t = "ct" /\ LogNow[i].key # key) =>
              (last'.err = "CryptoError" /\ last'.ret = NoRet)]_vars

\* entries() raised CryptoError on a log whose first line is a good entry and
\* whose second line is corrupt.
W24_EntriesRaisedOnOneBadLine ==
  /\ last.op = "entries" /\ last.err = "CryptoError"
  /\ Len(LogNow) = 2
  /\ CanDecrypt(LogNow[1], CallerKey)
  /\ LogNow[2] = CorruptLine

\* C27: after a DocumentStorage mutation (insert, update or delete) fails with
\* StorageError because the rewrite failed, the in-memory document map is the
\* same as before the call, so that get() does not return the unpersisted
\* change.
C27_FailedMutationLeavesMemory ==
  [][(/\ layer = "doc" /\ last'.op \in {"insert", "update", "delete"}
      /\ last'.err = "StorageError") =>
       /\ stores'[last'.h].data = stores[last'.h].data
       /\ \A id \in TargetIds :
            StoreGet(stores'[last'.h], id) = StoreGet(stores[last'.h], id)]_vars

\* C28: DocumentStorage.list() returns exactly the records that are in the
\* vault file at the time of the call and replaces the in-memory map with
\* them: what another store wrote to the file since this one was opened is
\* returned, and in-memory entries that are not in the file are dropped.
C28_ListReloadsFile ==
  [][\A h \in Handles :
       DocListOn(h, 1) =>
         /\ last'.err = "none"
         /\ last'.ret = RetDocs(FileDocs("p1"))
         /\ stores'[h].data = FileDocs("p1")
         /\ files' = files]_vars

\* list() of the second store returned a record that the first store wrote,
\* which is not what the first store holds in memory any more.
W28_ListedAnotherStoresRecord ==
  /\ last.op = "list" /\ last.h = "h2" /\ last.err = "none"
  /\ DOMAIN FileDocs("p1") = {"a"}
  /\ last.ret = RetDocs(FileDocs("p1"))
  /\ stores["h1"].data # FileDocs("p1")

\* C29: each successful mutating call (insert, update, delete, at either
\* layer) performs exactly one atomic rewrite of the vault file, after which
\* the file holds the store's documents; a call that changes nothing (a
\* duplicate insert, an update or delete of an absent id, a call rejected by
\* validation, get, find) performs no rewrite and leaves file and directory
\* as they were.
C29_OneRewritePerMutation ==
  [][LET h == last'.h
         changed == /\ last'.op \in {"insert", "update", "delete"}
                    /\ last'.err = "none"
                    /\ last'.ret # RetBool(FALSE)
     IN /\ changed =>
             /\ last'.writes = 1
             /\ files'["p1"] = FileContent(stores'[h])
        /\ (last'.op \in {"insert", "update", "delete", "get", "find"} /\ ~changed) =>
             /\ last'.writes = 0
             /\ files' = files /\ temps' = temps]_vars

\* An EncryptedStorage update of a stored document returned True after one
\* rewrite.
W29_EncUpdateRewroteOnce ==
  /\ layer = "enc" /\ last.op = "update" /\ last.ret = RetBool(TRUE)
  /\ last.writes = 1
  /\ files["p1"] = FileContent(stores["h1"])

\* C30: a reader that loads the vault file at any point while another store
\* instance is executing a mutation of the same file observes either the
\* complete pre-mutation content or the complete post-mutation content, never
\* a half-written file: the content at the vault path changes only in the
\* os.replace step, and then to the complete content the writer holds; at
\* every point of the rewrite the reader's load succeeds and returns the
\* records at the vault path.
C30_ReaderSeesOldOrNew ==
  [][/\ files'["p1"] # files["p1"] =>
          /\ Writing("h1") /\ Idle("h1")'
          /\ last'.op \in {"insert", "update", "delete"} /\ last'.err = "none"
          /\ files'["p1"] = FileContent(stores["h1"])
     /\ files'["p1"].kind \in {"absent", "json"}
     /\ DocListOn("h2", 1) =>
          /\ last'.err = "none"
          /\ last'.ret = RetDocs(FileDocs("p1"))]_vars

\* The reader listed the old content while the writer's temporary file was
\* half written: the writer holds a record that the reader did not get.
W30_ReadDuringDump ==
  /\ last.op = "list" /\ last.h = "h2" /\ last.err = "none"
  /\ stores["h1"].pc = "writing"
  /\ files[TempPath("p1")] = PartialFile
  /\ files["p1"].kind = "json"
  /\ last.ret.docs # stores["h1"].data

\* ------------------------------------------------- errors of vault.insert
\* C31: in EncryptedStorage.insert a DuplicateIDError propagates unchanged
\* (and is raised exactly for an id already stored), while every other
\* failure of encryption or persistence, a failed rewrite of the vault file
\* included, reaches the caller as CryptoError.
C31_InsertWrapsAllButDuplicate ==
  [][last'.op = "insert" /\ layer = "enc" =>
       /\ last'.err \in {"none", "DuplicateIDError", "CryptoError"}
       /\ last'.err = "DuplicateIDError" <=> last'.id \in DOMAIN stores[last'.h].data
       /\ last'.err = "CryptoError" <=> faults' # faults
    ]_vars

\* An insert through the vault whose rewrite failed raised CryptoError.
W31_FailedRewriteRaisedCryptoError ==
  /\ last.op = "insert" /\ layer = "enc"
  /\ last.err = "CryptoError" /\ faults > 0
  /\ last.id \in DOMAIN stores[last.h].data
  /\ last.id \notin DOMAIN FileDocs("p1")

\* C32: insert, at both layers, generates a fresh identifier only when the
\* record has no `_id`: whenever the caller supplies an `_id` (any string, the
\* empty string included), the record is stored under exactly that id and
\* that id is returned.
C32_InsertKeepsSuppliedId ==
  [][last'.op = "insert" /\ last'.err = "none" =>
       \A h \in {last'.h}, doc \in Docs, uuid \in Uuids, fail \in Failures :
         (/\ DocInsertOn(h, doc, uuid, fail) \/ EncInsertOn(h, doc, uuid, fail)
          /\ "_id" \in DOMAIN doc) =>
           /\ last'.ret = RetId(doc["_id"].v)
           /\ doc["_id"].v \in DOMAIN stores'[h].data
           /\ doc["_id"].v \in DOMAIN FileDocs(stores[h].path)'
    ]_vars

\* C33: EncryptedStorage.find raises CryptoError whenever any record stored in
\* the vault file lacks its ciphertext field or fails decryption, also when
\* that record could not match the filter; it never silently skips such a
\* record.
C33_FindNeverSkips ==
  [][last'.op = "find" =>
       \A h \in {last'.h}, filter \in TamperFilters :
         EncFindOn(h, filter, 1) =>
           LET raw_docs == FileDocs(stores[h].path)
               unreadable == {k \in DOMAIN raw_docs : ~Readable(raw_docs[k], stores[h].key)}
           IN unreadable # {} => (last'.err = "CryptoError" /\ last'.ret = NoRet)
    ]_vars

\* find raised CryptoError over a vault file whose record `a` is valid and
\* whose record `u1` carries another vault's ciphertext of an empty document,
\* which matches no filter that was passed.
W33_FindRaisedOnForeignRecord ==
  /\ last.op = "find" /\ last.err = "CryptoError"
  /\ DOMAIN FileDocs("p1") = {"a", "u1"}
  /\ Readable(FileDocs("p1")["a"], stores["h1"].key)
  /\ FileDocs("p1")["u1"] = Damaged(FileDocs("p1")["u1"], "otherkey")

\* ------------------------------------------------ the file after a mutation
\* C34: immediately after a mutating call has returned successfully (insert
\* its id, update or delete True), the vault file's `documents` and `_meta`
\* equal the store's in-memory documents and metadata, so that a new
\* DocumentStorage opened on the same path at that moment, whatever app_name
\* and clock it is given, observes the same state.
C34_FileEqualsMemoryAfterMutation ==
  (/\ last.op \in {"insert", "update", "delete"}
   /\ last.err = "none" /\ last.ret # RetBool(FALSE)) =>
    LET s == stores[last.h]
        f == files[s.path]
    IN /\ f.kind = "json"
       /\ f.obj["documents"] = s.data
       /\ f.obj["_meta"] = s.meta
       /\ \A app_name \in {"", "app"}, now \in Times :
            LET l == Load(NewStore(s.path), f, app_name, now)
            IN l.err = "none" /\ l.s.meta = s.meta /\ l.s.data = s.data

\* An update returned True on a store whose metadata carries a field the
\* caller set after the last failed rewrite: file and memory both hold it.
W34_UpdatedWithUserField ==
  /\ last.op = "update" /\ last.ret = RetBool(TRUE) /\ faults > 0
  /\ "label" \in DOMAIN stores["h1"].meta
  /\ files["p1"].kind = "json"
  /\ files["p1"].obj["_meta"] = stores["h1"].meta
  /\ DOMAIN files["p1"].obj["documents"] = {"a", "u1"}

\* ------------------------------------------------------ the salt of a vault
\* The salt the vault file f records in `_meta` (null when it records none).
VaultSalt(f) ==
  IF IsVaultObject(f) /\ "salt" \in DOMAIN f.obj["_meta"] THEN f.obj["_meta"]["salt"] ELSE Null

\* C35: for a vault opened with a passphrase, the `salt` in the file's `_meta`
\* after any sequence of insert, update and delete calls through that handle
\* equals the salt recorded when the vault was created (the one the handle's
\* key was derived from): no rewrite drops or changes it.
C35_SaltKeptByRewrites ==
  [][/\ \A p \in Paths :
          VaultSalt(files[p]) # Null => VaultSalt(files'[p]) = VaultSalt(files[p])
     /\ \A h \in Handles :
          Open(h)' => VaultSalt(files'[stores'[h].path]) = B64(stores'[h].key.salt)
    ]_vars

\* A record was deleted through the second handle of a vault after a rewrite
\* had failed, and the file still records the salt generated at creation.
W35_DeletedAndSaltKept ==
  /\ last.op = "delete" /\ last.ret = RetBool(TRUE) /\ last.h = "h2" /\ faults > 0
  /\ Open("h1") /\ stores["h1"].key = stores["h2"].key
  /\ stores["h1"].key.salt = 2
  /\ VaultSalt(files["p1"]) = B64(2)

\* C36: DocumentStorage.list() leaves the store's metadata unchanged:
\* `created_at`, `app_name` and user-set fields that have not yet been written
\* have the same values after list() as before, also on a store whose file
\* does not exist yet or is empty.
C36_ListKeepsMetadata ==
  [][last'.op = "list" =>
       \A h \in {last'.h}, now \in Times :
         DocListOn(h, now) => stores'[h].meta = stores[h].meta
    ]_vars

\* C37: a metadata update() call whose mapping contains a protected key
\* (`vault_version` or `created_at`) raises and applies none of the other keys
\* of that mapping: the metadata is exactly as before the call.
C37_RefusedUpdateAppliesNothing ==
  [][last'.op = "meta.update" =>
       \A h \in {last'.h}, u \in MetaUpdates :
         (MetaUpdateOn(h, u) /\ DOMAIN u \cap ProtectedKeys # {}) =>
           /\ last'.err = "RuntimeError"
           /\ \A k \in DOMAIN u \ ProtectedKeys :
                /\ k \in DOMAIN stores'[h].meta <=> k \in DOMAIN stores[h].meta
                /\ k \in DOMAIN stores[h].meta => stores'[h].meta[k] = stores[h].meta[k]
           /\ stores'[h].meta = stores[h].meta
           /\ files' = files
    ]_vars

\* update() was refused on metadata whose user field `label` and whose
\* `vault_version` both kept the values they had.
W37_RefusedUpdateKeptLabel ==
  /\ last.op = "meta.update" /\ last.err = "RuntimeError"
  /\ "label" \in DOMAIN stores["h1"].meta
  /\ stores["h1"].meta["label"] = Str("alpha")
  /\ "vault_version" \in DOMAIN stores["h1"].meta
  /\ stores["h1"].meta["vault_version"] = VAULTDB_VERSION

\* C38: after a rewrite of the vault file, whether it succeeds or fails, no
\* temporary file created by that rewrite remains in the vault's directory.
C38_NoTemporaryFileLeft ==
  [][last'.writes > 0 =>
       \A p \in Paths : temps'[p] = temps[p]
    ]_vars
====
